---- MODULE Spec2Model ----
(***************************************************************************)
(* Model of the codebase-qa-agent retrieval core: the per-project SQLite   *)
(* store (skills/storage.py), the indexer (reasoners/indexer.py) and the   *)
(* scanner / extractor it drives.                                          *)
(*                                                                         *)
(* Python strings whose characters matter (paths, slugs, project ids, the  *)
(* TEXT values of the meta table) are sequences of one-character strings.  *)
(* Keywords, symbol names and relative paths are atoms.                    *)
(***************************************************************************)
EXTENDS Integers, Sequences, FiniteSets, TLC

VARIABLES
    store,      \* projects/<project_id>.db : project id -> database or NoDb
    dbOrder,    \* the .db files ordered by st_mtime, most recent last
    disk,       \* root -> (relative path -> file on disk or NoFile)
    clock,      \* time.time()
    ret,        \* the last call: its arguments and what it returned
    wr,         \* a save_index in progress on its own connection
    rd,         \* a load_index in progress on its own connection
    sessions,   \* sessions.db: the rows of the table sessions
    qa,         \* an answer_question in progress (awaiting the language model)
    watch       \* _active_watchers and the watch loops that were created

vars == <<store, dbOrder, disk, clock, ret, wr, rd, sessions, qa, watch>>

----------------------------------------------------------------------------
(* Generic helpers *)

Range(s) == {s[i] : i \in DOMAIN s}

RECURSIVE SeqOf(_)
\* the elements of a finite set as a list, in one fixed order
SeqOf(S) ==
    IF S = {} THEN <<>>
    ELSE LET x == CHOOSE y \in S : TRUE IN <<x>> \o SeqOf(S \ {x})

RECURSIVE IndexOf(_, _)
\* position of x in list s, 0 when absent
IndexOf(x, s) ==
    IF s = <<>> THEN 0
    ELSE IF s[Len(s)] = x /\ IndexOf(x, SubSeq(s, 1, Len(s) - 1)) = 0 THEN Len(s)
    ELSE IndexOf(x, SubSeq(s, 1, Len(s) - 1))

NoneStr == "<None>"

----------------------------------------------------------------------------
(* Text conversions *)

Digits == <<"0", "1", "2", "3", "4", "5", "6", "7", "8", "9">>

RECURSIVE Str(_)
\* str(n) of a non-negative number
Str(n) ==
    IF n < 10 THEN <<Digits[n + 1]>>
    ELSE Str(n \div 10) \o <<Digits[(n % 10) + 1]>>

IsNumeral(s) == Len(s) > 0 /\ \A i \in 1..Len(s) : IndexOf(s[i], Digits) # 0

RECURSIVE ParseNum(_)
\* int(s) / float(s) of a numeral; a ValueError otherwise (see IsNumeral)
ParseNum(s) ==
    IF Len(s) = 1 THEN IndexOf(s[1], Digits) - 1
    ELSE 10 * ParseNum(SubSeq(s, 1, Len(s) - 1)) + (IndexOf(s[Len(s)], Digits) - 1)

RECURSIVE JsonJoin(_)
JsonJoin(ws) ==
    IF Len(ws) = 0 THEN <<>>
    ELSE IF Len(ws) = 1 THEN <<ws[1]>>
    ELSE <<ws[1], ",">> \o JsonJoin(Tail(ws))

\* json.dumps of a list of strings, as a token list
JsonDumps(ws) == <<"[">> \o JsonJoin(ws) \o <<"]">>

JsonPunct == {"[", "]", ","}

RECURSIVE JsonItemsOk(_)
\* the tokens between the brackets: item ("," item)*
JsonItemsOk(ts) ==
    IF Len(ts) = 0 THEN FALSE
    ELSE IF ts[1] \in JsonPunct THEN FALSE
    ELSE IF Len(ts) = 1 THEN TRUE
    ELSE ts[2] = "," /\ JsonItemsOk(SubSeq(ts, 3, Len(ts)))

\* json.loads succeeds (otherwise json.JSONDecodeError)
JsonValid(ts) ==
    /\ Len(ts) >= 2
    /\ ts[1] = "["
    /\ ts[Len(ts)] = "]"
    /\ (Len(ts) = 2 \/ JsonItemsOk(SubSeq(ts, 2, Len(ts) - 1)))

RECURSIVE JsonItems(_)
JsonItems(ts) ==
    IF Len(ts) = 0 THEN <<>>
    ELSE IF ts[1] \in JsonPunct THEN JsonItems(Tail(ts))
    ELSE <<ts[1]>> \o JsonItems(Tail(ts))

\* json.loads of a valid list
JsonLoads(ts) == JsonItems(ts)

----------------------------------------------------------------------------
(* Project handles: storage.py lines 15-30 *)

SCHEMA_VERSION == 5

UpperToLower ==
    [A |-> "a", B |-> "b", C |-> "c", D |-> "d", E |-> "e", F |-> "f", G |-> "g",
     H |-> "h", I |-> "i", J |-> "j", K |-> "k", L |-> "l", M |-> "m", N |-> "n",
     O |-> "o", P |-> "p", Q |-> "q", R |-> "r", S |-> "s", T |-> "t", U |-> "u",
     V |-> "v", W |-> "w", X |-> "x", Y |-> "y", Z |-> "z"]

\* str.lower()
StrLower(s) ==
    [i \in 1..Len(s) |-> IF s[i] \in DOMAIN UpperToLower THEN UpperToLower[s[i]] ELSE s[i]]

\* str.replace(a, b) for one-character a and b
StrReplace(s, a, b) == [i \in 1..Len(s) |-> IF s[i] = a THEN b ELSE s[i]]

RECURSIVE StripSlashes(_)
StripSlashes(s) ==
    IF Len(s) > 0 /\ s[Len(s)] = "/" THEN StripSlashes(SubSeq(s, 1, Len(s) - 1)) ELSE s

RECURSIVE LastComponent(_)
LastComponent(s) ==
    IF Len(s) = 0 \/ s[Len(s)] = "/" THEN <<>>
    ELSE Append(LastComponent(SubSeq(s, 1, Len(s) - 1)), s[Len(s)])

\* Path(s).name
PathName(s) == LastComponent(StripSlashes(s))

_make_slug(project_root) == StrReplace(StrLower(PathName(project_root)), " ", "-")

\* The project roots of the model.  RootApp2 has the basename of RootApp1;
\* RootAB has a basename that lower() and replace() change.
RootApp1 == <<"/", "u", "/", "a", "p", "p">>
RootApp2 == <<"/", "v", "/", "a", "p", "p">>
RootAB == <<"/", "u", "/", "A", " ", "b">>
RootList == <<RootApp1, RootApp2, RootAB>>
\* RootApp1 spelled with a trailing slash
RootApp1Slash == RootApp1 \o <<"/">>
\* the strings that are hashed as project roots
Spellings == RootList \o <<RootApp1Slash>>
HexTab == <<<<"0", "1">>, <<"0", "2">>, <<"0", "3">>, <<"0", "4">>>>
HexOther == <<"f", "f">>

\* hashlib.sha256(s.encode()).hexdigest()[:12], shortened to two digits:
\* distinct strings have distinct digests, and a string that is no root has a
\* digest that no root has (SHA-256 is taken to be collision free).
Sha256Hex12(s) == IF IndexOf(s, Spellings) # 0 THEN HexTab[IndexOf(s, Spellings)] ELSE HexOther

\* Path(project_path).resolve() for an absolute path without symlinks, and the
\* path a Path object stands for: trailing slashes are dropped
Resolve(project_path) == StripSlashes(project_path)

_make_project_id(project_root) ==
    _make_slug(project_root) \o <<"_">> \o Sha256Hex12(project_root)

\* INDEX_DIR / "projects" / f"{project_id}.db", named by its stem
_project_db_path(project_root) == _make_project_id(project_root)

----------------------------------------------------------------------------
(* The per-project database: storage.py lines 33-97 *)

NoDb == [exists |-> FALSE]

\* a database file that sqlite3.connect has just created and _ensure_schema
\* has given its (empty) tables
EmptyDb ==
    [exists |-> TRUE, readable |-> TRUE, meta |-> <<>>, files |-> {}, chunks |-> {},
     symbols |-> {}, keyword_files |-> {}, embeddings |-> {}]

\* _get_db raises (sqlite3.DatabaseError) on a file that is no database
CanOpen(db) == IF db.exists THEN db.readable ELSE TRUE

_get_db(db) == IF db.exists THEN db ELSE EmptyDb

\* INSERT OR REPLACE INTO meta VALUES (k, v)
MetaPut(m, k, v) == [x \in (DOMAIN m) \cup {k} |-> IF x = k THEN v ELSE m[x]]

FileKeys(db) == {f.rel_path : f \in db.files}

----------------------------------------------------------------------------
(* save_index: storage.py lines 100-165 *)

\* lines 108-112
ClearTables(db) ==
    [db EXCEPT !.embeddings = {}, !.chunks = {}, !.symbols = {},
               !.keyword_files = {}, !.files = {}]

\* lines 115-122
WriteMeta(db, file_index, project_root, indexed_at) ==
    LET m1 == MetaPut(db.meta, "schema_version", Str(SCHEMA_VERSION))
        m2 == MetaPut(m1, "project_root", project_root)
        m3 == MetaPut(m2, "indexed_at", Str(indexed_at))
        m4 == MetaPut(m3, "total_files", Str(Cardinality(DOMAIN file_index)))
        m5 == MetaPut(m4, "slug", _make_slug(project_root))
        m6 == MetaPut(m5, "project_id", _make_project_id(project_root))
    IN [db EXCEPT !.meta = m6]

FileRow(rel_path, meta) ==
    [rel_path |-> rel_path, extension |-> meta.extension, size_bytes |-> meta.size_bytes,
     last_modified |-> meta.last_modified, keywords |-> JsonDumps(meta.keywords)]

ChunkRows(rel_path, meta) ==
    {[rel_path |-> rel_path, chunk_index |-> i - 1,
      start_line |-> meta.chunks[i].start_line, end_line |-> meta.chunks[i].end_line,
      content |-> meta.chunks[i].content, symbol_name |-> meta.chunks[i].symbol]
        : i \in 1..Len(meta.chunks)}

\* lines 125-138: the keys of a dict are distinct, so no INSERT INTO files fails
InsertFiles(db, file_index) ==
    [db EXCEPT
        !.files = @ \cup {FileRow(rel, file_index[rel]) : rel \in DOMAIN file_index},
        !.chunks = @ \cup UNION {ChunkRows(rel, file_index[rel]) : rel \in DOMAIN file_index}]

RECURSIVE FlattenDict(_, _)
\* the (key, item) pairs of a dict of lists, in iteration order
FlattenDict(d, keys) ==
    IF keys = <<>> THEN <<>>
    ELSE [i \in 1..Len(d[Head(keys)]) |-> [key |-> Head(keys), item |-> d[Head(keys)][i]]]
         \o FlattenDict(d, Tail(keys))

SymbolRows(symbol_map) ==
    LET flat == FlattenDict(symbol_map, SeqOf(DOMAIN symbol_map))
    IN [i \in 1..Len(flat) |->
          [name |-> flat[i].key, rel_path |-> flat[i].item.file,
           line |-> flat[i].item.line, type |-> flat[i].item.type]]

KeywordRows(keyword_map) ==
    LET flat == FlattenDict(keyword_map, SeqOf(DOMAIN keyword_map))
    IN [i \in 1..Len(flat) |-> [keyword |-> flat[i].key, rel_path |-> flat[i].item]]

SymbolKey(r) == <<r.name, r.rel_path, r.line>>

RECURSIVE InsertSymbols(_, _)
\* lines 141-146: INSERT OR REPLACE on PRIMARY KEY (name, rel_path, line);
\* rel_path REFERENCES files(rel_path), checked when the statement ends
InsertSymbols(db, rows) ==
    IF rows = <<>> THEN [ok |-> TRUE, db |-> db]
    ELSE IF Head(rows).rel_path \notin FileKeys(db) THEN [ok |-> FALSE, db |-> db]
    ELSE InsertSymbols(
            [db EXCEPT !.symbols =
                {s \in @ : SymbolKey(s) # SymbolKey(Head(rows))} \cup {Head(rows)}],
            Tail(rows))

RECURSIVE InsertKeywords(_, _)
\* lines 149-154: INSERT OR REPLACE on PRIMARY KEY (keyword, rel_path)
InsertKeywords(db, rows) ==
    IF rows = <<>> THEN [ok |-> TRUE, db |-> db]
    ELSE IF Head(rows).rel_path \notin FileKeys(db) THEN [ok |-> FALSE, db |-> db]
    ELSE InsertKeywords([db EXCEPT !.keyword_files = @ \cup {Head(rows)}], Tail(rows))

\* lines 157-159: what the database holds after the except branch
RollbackKeepsWrites(before, txn) == txn
Rollback(before, txn) == before

\* the statements of lines 106-154 run on the opened database; [ok, db] is
\* whether they all succeeded and the rows the connection then sees
SaveStatements(opened, X, project_root, indexed_at) ==
    LET t1 == ClearTables(opened)
        t2 == WriteMeta(t1, X.file_index, project_root, indexed_at)
        t3 == InsertFiles(t2, X.file_index)
        r4 == InsertSymbols(t3, SymbolRows(X.symbol_map))
    IN IF ~r4.ok THEN r4 ELSE InsertKeywords(r4.db, KeywordRows(X.keyword_map))

\* save_index on database db (which _get_db can open): [ok, db]
SaveIndexDb(db, X, project_root, indexed_at) ==
    LET opened == _get_db(db)
        r == SaveStatements(opened, X, project_root, indexed_at)
    IN IF r.ok THEN r ELSE [ok |-> FALSE, db |-> Rollback(opened, r.db)]

----------------------------------------------------------------------------
(* load_index and the resolution of identifiers: storage.py lines 168-368 *)

\* lines 268-276: the .db file with the greatest st_mtime, as a set that is
\* empty for None
_find_latest_project_db(order) ==
    IF order = <<>> THEN {} ELSE {order[Len(order)]}

MetaIs(db, k, v) == k \in DOMAIN db.meta /\ db.meta[k] = v

\* lines 362-365 without the comparison of the slug row
IdOnlyMatches(db, identifier) ==
    /\ db.exists
    /\ db.readable
    /\ MetaIs(db, "project_id", identifier)

\* lines 354-367: one iteration of the glob loop returns db_path
SlugOrIdMatches(db, identifier) ==
    /\ db.exists
    /\ db.readable
    /\ (MetaIs(db, "slug", identifier) \/ MetaIs(db, "project_id", identifier))

\* lines 339-368.  The result is a set of paths: empty for None, and every
\* matching file when the loop over glob("*.db"), whose order the file system
\* decides, can return more than one.
resolve_project_db(st, order, identifier) ==
    LET direct == _project_db_path(identifier)
    IN IF identifier = <<>> THEN _find_latest_project_db(order)
       ELSE IF direct \in DOMAIN st /\ st[direct].exists THEN {direct}
       ELSE {p \in DOMAIN st : SlugOrIdMatches(st[p], identifier)}

\* lines 176-181: the databases load_index may open (DB_FILE, the legacy
\* database, is never created, so an empty set ends in "return None")
LoadDbPaths(st, order, project_path) ==
    LET db_path == IF project_path # <<>> THEN resolve_project_db(st, order, project_path)
                   ELSE {}
    IN IF db_path # {} THEN db_path ELSE _find_latest_project_db(order)

RECURSIVE OrderByChunkIndex(_)
OrderByChunkIndex(rows) ==
    IF rows = {} THEN <<>>
    ELSE LET r == CHOOSE x \in rows : \A y \in rows : x.chunk_index <= y.chunk_index
         IN <<r>> \o OrderByChunkIndex(rows \ {r})

\* lines 208-216: SELECT * FROM chunks WHERE rel_path=? ORDER BY chunk_index
SelectChunks(db, rel_path) ==
    LET rows == OrderByChunkIndex({c \in db.chunks : c.rel_path = rel_path})
    IN [i \in 1..Len(rows) |->
          [start_line |-> rows[i].start_line, end_line |-> rows[i].end_line,
           content |-> rows[i].content, symbol |-> rows[i].symbol_name]]

\* line 218: SELECT name FROM symbols WHERE rel_path=?
SelectSymbolNames(db, rel_path) ==
    LET rows == SeqOf({r \in db.symbols : r.rel_path = rel_path})
    IN [i \in 1..Len(rows) |-> rows[i].name]

\* lines 220-227
FileEntry(file_row, chunks, names) ==
    [chunks |-> chunks, keywords |-> JsonLoads(file_row.keywords), symbols |-> names,
     extension |-> file_row.extension, size_bytes |-> file_row.size_bytes,
     last_modified |-> file_row.last_modified]

FileRowOf(db, rel_path) == CHOOSE f \in db.files : f.rel_path = rel_path

\* lines 204-227
SelectFileIndex(db) ==
    [rel \in FileKeys(db) |->
        FileEntry(FileRowOf(db, rel), SelectChunks(db, rel), SelectSymbolNames(db, rel))]

\* lines 230-232
SelectKeywordMap(db) ==
    [kw \in {r.keyword : r \in db.keyword_files} |->
        SeqOf({r.rel_path : r \in {x \in db.keyword_files : x.keyword = kw}})]

\* lines 235-241
SelectSymbolMap(db) ==
    [name \in {r.name : r \in db.symbols} |->
        SeqOf({[file |-> r.rel_path, line |-> r.line, type |-> r.type]
                 : r \in {x \in db.symbols : x.name = name}})]

Absent == [ok |-> FALSE]

\* lines 247-256
LoadedIndex(project_root, indexed_at, slug, project_id, file_index, keyword_map, symbol_map) ==
    [ok |-> TRUE, schema_version |-> SCHEMA_VERSION, project_root |-> project_root,
     project_id |-> project_id, slug |-> slug, indexed_at |-> indexed_at,
     file_index |-> file_index, keyword_map |-> keyword_map, symbol_map |-> symbol_map]

\* lines 194-196: the schema check ends in "return None"
SchemaRejected(db) ==
    \/ "schema_version" \notin DOMAIN db.meta
    \/ /\ IsNumeral(db.meta["schema_version"])
       /\ ParseNum(db.meta["schema_version"]) # SCHEMA_VERSION

\* lines 186-190 and 257-260: the paths that end in db_path.unlink()
LoadUnlinks(db) ==
    \/ ~db.readable
    \/ /\ "schema_version" \in DOMAIN db.meta
       /\ ~IsNumeral(db.meta["schema_version"])
    \/ /\ ~SchemaRejected(db)
       /\ "project_root" \in DOMAIN db.meta
       /\ "indexed_at" \in DOMAIN db.meta
       /\ \/ \E f \in db.files : ~JsonValid(f.keywords)
          \/ ~IsNumeral(db.meta["indexed_at"])

\* lines 192-256 on an existing database file: the value returned
LoadFromDb(db) ==
    IF LoadUnlinks(db) THEN Absent
    ELSE IF SchemaRejected(db) THEN Absent
    ELSE IF "project_root" \notin DOMAIN db.meta \/ "indexed_at" \notin DOMAIN db.meta
    THEN Absent
    ELSE LET root_val == db.meta["project_root"]
         IN LoadedIndex(root_val, ParseNum(db.meta["indexed_at"]),
                IF "slug" \in DOMAIN db.meta THEN db.meta["slug"] ELSE _make_slug(root_val),
                IF "project_id" \in DOMAIN db.meta THEN db.meta["project_id"]
                ELSE _make_project_id(root_val),
                SelectFileIndex(db), SelectKeywordMap(db), SelectSymbolMap(db))

\* the order of the .db files by st_mtime after a write to p / the unlink of p
Touch(order, p) == SelectSeq(order, LAMBDA q : q # p) \o <<p>>
Unlinked(order, p) == SelectSeq(order, LAMBDA q : q # p)

----------------------------------------------------------------------------
(* delete_project: storage.py lines 308-336 *)

\* lines 323-329 without the comparison of the slug row
DeleteMatchesRootOrId(db, project_identifier) ==
    /\ db.exists
    /\ db.readable
    /\ \/ MetaIs(db, "project_root", project_identifier)
       \/ MetaIs(db, "project_id", project_identifier)

\* lines 323-329
DeleteMatches(db, project_identifier) ==
    /\ db.exists
    /\ db.readable
    /\ \/ MetaIs(db, "project_root", project_identifier)
       \/ MetaIs(db, "slug", project_identifier)
       \/ MetaIs(db, "project_id", project_identifier)

----------------------------------------------------------------------------
(* Files on disk, the scanner and the extractor *)

\* A text is a list of lines and a line a list of words; "binary" content has
\* a null byte in its first 8 KB; "unreadable" content is that of a file open()
\* refuses (PermissionError, OSError).
TextContent(lines) == [kind |-> "text", lines |-> lines]
BinaryContent == [kind |-> "binary", lines |-> <<<<"elf">>>>]
UnreadableContent == [kind |-> "unreadable", lines |-> <<<<"alpha">>>>]

NoFile == [exists |-> FALSE]

\* what disk holds for a root that is no directory: nothing, or a file
MissingRoot == [root |-> "missing"]
FileAtRoot == [root |-> "file"]
\* Path.is_dir() of a root
IsDir(dir) == "root" \notin DOMAIN dir
File(content, mtime) == [exists |-> TRUE, content |-> content, mtime |-> mtime]

\* the sort order of relative paths (scanner.py line 126)
FileOrder == <<"a.py", "b.py", "src/main.py", "src/util.py">>
\* the files the user edits at the top of a root
FilesOnDisk == {"a.py", "b.py"}

RECURSIVE SumLen(_)
SumLen(lines) == IF lines = <<>> THEN 0 ELSE Len(Head(lines)) + 1 + SumLen(Tail(lines))

\* st_size: one unit per word and per line end
SizeBytes(content) == SumLen(content.lines)

\* scanner.py lines 60-126 over a root whose entries are regular files with
\* the extension .py outside the ignored directories: the empty file is
\* skipped, the others are listed in the order of their relative paths
scan_directory(dir) ==
    LET kept == SelectSeq(FileOrder,
                    LAMBDA f : IF f \in DOMAIN dir
                               THEN dir[f].exists /\ SizeBytes(dir[f].content) # 0
                               ELSE FALSE)
    IN [i \in 1..Len(kept) |->
          [relative_path |-> kept[i], extension |-> ".py",
           size_bytes |-> SizeBytes(dir[kept[i]].content),
           last_modified |-> dir[kept[i]].mtime]]

\* scanner.py lines 129-167: the lines read, none for a binary file or for one
\* that cannot be opened
read_file(file) == IF file.content.kind = "text" THEN file.content.lines ELSE <<>>

\* content.strip() is empty
IsBlank(lines) == \A i \in DOMAIN lines : lines[i] = <<>>

\* extractor.py lines 10-14 and 155-160: the pattern a line of a .py file
\* matches, and the type that pattern gives
SymbolOfLine(line, line_num) ==
    IF Len(line) >= 2 /\ line[1] = "def"
    THEN <<[name |-> line[2], type |-> "function", line |-> line_num]>>
    ELSE IF Len(line) >= 3 /\ line[1] = "async" /\ line[2] = "def"
    THEN <<[name |-> line[3], type |-> "function", line |-> line_num]>>
    ELSE IF Len(line) >= 2 /\ line[1] = "class"
    THEN <<[name |-> line[2], type |-> "class", line |-> line_num]>>
    ELSE <<>>

RECURSIVE SymbolsFrom(_, _)
SymbolsFrom(lines, line_num) ==
    IF line_num > Len(lines) THEN <<>>
    ELSE SymbolOfLine(lines[line_num], line_num) \o SymbolsFrom(lines, line_num + 1)

\* extractor.py lines 140-167 (the regex table; tree-sitter is not installed)
extract_symbols(lines) == SymbolsFrom(lines, 1)

STOP_WORDS ==
    {"the", "a", "an", "is", "in", "it", "of", "to", "and", "or",
     "for", "with", "this", "that", "be", "are", "was", "were",
     "import", "from", "return", "if", "else", "elif", "class",
     "def", "function", "const", "let", "var", "true", "false",
     "none", "null", "self", "type", "pass", "print"}

\* the words of the model that have fewer than three letters
ShortWords == {"id", "x"}

RECURSIVE Flatten(_)
Flatten(lines) == IF lines = <<>> THEN <<>> ELSE Head(lines) \o Flatten(Tail(lines))

RECURSIVE Dedup(_)
\* the distinct words in first-seen order
Dedup(ws) ==
    IF ws = <<>> THEN <<>>
    ELSE LET init == Dedup(SubSeq(ws, 1, Len(ws) - 1))
         IN IF ws[Len(ws)] \in Range(init) THEN init ELSE Append(init, ws[Len(ws)])

Count(w, ws) == Cardinality({i \in DOMAIN ws : ws[i] = w})

RECURSIVE MostCommon(_, _)
\* Counter.most_common: by count, descending, ties in first-seen order
MostCommon(keys, ws) ==
    IF keys = <<>> THEN <<>>
    ELSE LET best == CHOOSE i \in DOMAIN keys :
                        /\ \A j \in DOMAIN keys : Count(keys[i], ws) >= Count(keys[j], ws)
                        /\ \A j \in 1..(i - 1) : Count(keys[j], ws) < Count(keys[i], ws)
         IN <<keys[best]>> \o
            MostCommon(SubSeq(keys, 1, best - 1) \o SubSeq(keys, best + 1, Len(keys)), ws)

TOP_N == 20

\* extractor.py lines 227-255
ExtractKeywords(lines, top_n) ==
    LET words == SelectSeq(Flatten(lines), LAMBDA w : w \notin ShortWords)
        meaningful == SelectSeq(words, LAMBDA w : w \notin STOP_WORDS)
        ranked == MostCommon(Dedup(meaningful), meaningful)
    IN SubSeq(ranked, 1, IF Len(ranked) < top_n THEN Len(ranked) ELSE top_n)

\* with the default top_n
extract_keywords(lines) == ExtractKeywords(lines, TOP_N)

Min(a, b) == IF a < b THEN a ELSE b

RECURSIVE SortByLine(_)
\* sorted(symbols, key=line): stable
SortByLine(syms) ==
    IF syms = <<>> THEN <<>>
    ELSE LET first == CHOOSE i \in DOMAIN syms :
                        /\ \A j \in DOMAIN syms : syms[i].line <= syms[j].line
                        /\ \A j \in 1..(i - 1) : syms[j].line > syms[i].line
         IN <<syms[first]>> \o
            SortByLine(SubSeq(syms, 1, first - 1) \o SubSeq(syms, first + 1, Len(syms)))

MAX_CHUNK_LINES == 60
WHOLE_FILE_LINES == 200

\* lines[a-1:b], the slice of Python
Slice(lines, a, b) == SubSeq(lines, a, Min(b, Len(lines)))

\* extractor.py lines 170-224
chunk_file(lines, symbols) ==
    LET total_lines == Len(lines)
        sorted_syms == SortByLine(symbols)
        header ==
            IF sorted_syms[1].line > 1
            THEN <<[start_line |-> 1, end_line |-> sorted_syms[1].line - 1,
                    content |-> Slice(lines, 1, sorted_syms[1].line - 1), symbol |-> NoneStr]>>
            ELSE <<>>
        SymChunk(i) ==
            LET start == sorted_syms[i].line
                next == IF i + 1 <= Len(sorted_syms) THEN sorted_syms[i + 1].line - 1
                        ELSE total_lines
                end == Min(next, start + MAX_CHUNK_LINES - 1)
            IN [start_line |-> start, end_line |-> end,
                content |-> Slice(lines, start, end), symbol |-> sorted_syms[i].name]
    IN IF symbols = <<>> \/ total_lines = 0
       THEN <<[start_line |-> 1, end_line |-> Min(total_lines, WHOLE_FILE_LINES),
               content |-> Slice(lines, 1, WHOLE_FILE_LINES), symbol |-> NoneStr]>>
       ELSE header \o [i \in 1..Len(sorted_syms) |-> SymChunk(i)]

----------------------------------------------------------------------------
(* The inputs of the store operations *)

EmptyDict == [x \in {} |-> x]

Chunk1 == [start_line |-> 1, end_line |-> 2, content |-> "c1", symbol |-> NoneStr]
Chunk2 == [start_line |-> 3, end_line |-> 4, content |-> "c2", symbol |-> "f"]

MetaA ==
    [chunks |-> <<Chunk1, Chunk2>>, keywords |-> <<"alpha", "beta">>, symbols |-> <<"f">>,
     extension |-> ".py", size_bytes |-> 40, last_modified |-> 3]
MetaB ==
    [chunks |-> <<Chunk1>>, keywords |-> <<"beta">>, symbols |-> <<>>,
     extension |-> ".py", size_bytes |-> 20, last_modified |-> 11]

Loc(file, line, type) == [file |-> file, line |-> line, type |-> type]

FileIndexes ==
    {EmptyDict, ("a.py" :> MetaA), ("a.py" :> MetaA) @@ ("b.py" :> MetaB)}

\* with a repeated edge, with a keyword that has no file, with a file "b.py"
\* that only some file indexes hold
KeywordMaps ==
    {EmptyDict,
     ("alpha" :> <<"a.py", "a.py">>),
     ("alpha" :> <<"a.py">>) @@ ("beta" :> <<>>),
     ("alpha" :> <<"a.py">>) @@ ("beta" :> <<"a.py", "b.py">>)}

\* with two declarations of one name on one line (class A { A() {} })
SymbolMaps ==
    {EmptyDict,
     ("f" :> <<Loc("a.py", 3, "function")>>),
     ("f" :> <<Loc("a.py", 3, "class"), Loc("a.py", 3, "function")>>),
     ("f" :> <<Loc("a.py", 3, "function")>>) @@ ("g" :> <<Loc("b.py", 1, "function")>>)}

Index(fi, km, sm) == [file_index |-> fi, keyword_map |-> km, symbol_map |-> sm]

RichIndexes == {Index(fi, km, sm) : fi \in FileIndexes, km \in KeywordMaps, sm \in SymbolMaps}

IndexA == Index(("a.py" :> MetaA), ("alpha" :> <<"a.py">>) @@ ("beta" :> <<"a.py">>),
                ("f" :> <<Loc("a.py", 3, "function")>>))
IndexAB == Index(("a.py" :> MetaA) @@ ("b.py" :> MetaB),
                 ("alpha" :> <<"a.py">>) @@ ("beta" :> <<"a.py", "b.py">>),
                 ("f" :> <<Loc("a.py", 3, "function")>>))
\* a symbol location in a file that file_index does not hold
IndexDangling == Index(("a.py" :> MetaA), ("alpha" :> <<"a.py">>),
                       ("g" :> <<Loc("b.py", 1, "function")>>))

SlimIndexes == {IndexA, IndexAB, IndexDangling}

Roots == Range(RootList)
UnknownPath == <<"/", "u", "/", "z">>

Identifiers ==
    Roots \cup {_make_slug(r) : r \in Roots} \cup {_make_project_id(r) : r \in Roots}
        \cup {UnknownPath, <<>>}

DbPaths == {_project_db_path(r) : r \in Range(Spellings)}

----------------------------------------------------------------------------
(* The store operations as atomic calls *)

\* some stored project has the identifier as root path, slug or project id
KnownHandle(st, identifier) == \E p \in DOMAIN st : DeleteMatches(st[p], identifier)

\* the states of a database the claims call corrupt
IsCorrupt(db) ==
    /\ db.exists
    /\ \/ ~db.readable
       \/ \E f \in db.files : ~JsonValid(f.keywords)
       \/ /\ "schema_version" \in DOMAIN db.meta
          /\ db.meta["schema_version"] # Str(SCHEMA_VERSION)

SaveIndex(project_root, X, indexed_at) ==
    LET p == _project_db_path(project_root)
        r == SaveIndexDb(store[p], X, project_root, indexed_at)
    IN /\ wr.pc = "idle"
       /\ rd.pc = "idle"
       /\ IF ~CanOpen(store[p])
          THEN /\ UNCHANGED <<store, dbOrder>>
               /\ ret' = [op |-> "save_index", root |-> project_root, X |-> X,
                          t |-> indexed_at, ok |-> FALSE, began |-> FALSE]
          ELSE /\ store' = [store EXCEPT ![p] = r.db]
               /\ dbOrder' = IF r.ok \/ ~store[p].exists THEN Touch(dbOrder, p) ELSE dbOrder
               /\ ret' = [op |-> "save_index", root |-> project_root, X |-> X,
                          t |-> indexed_at, ok |-> r.ok, began |-> TRUE]
       /\ UNCHANGED <<disk, clock, wr, rd, sessions, qa, watch>>

LoadIndex(project_path) ==
    LET paths == LoadDbPaths(store, dbOrder, project_path)
        known == KnownHandle(store, project_path)
    IN /\ wr.pc = "idle"
       /\ rd.pc = "idle"
       /\ IF paths = {}
          THEN /\ ret' = [op |-> "load_index", arg |-> project_path, val |-> Absent,
                          db_path |-> {}, known |-> known, corrupt |-> FALSE]
               /\ UNCHANGED <<store, dbOrder>>
          ELSE \E p \in paths :
                /\ ret' = [op |-> "load_index", arg |-> project_path,
                           val |-> LoadFromDb(store[p]), db_path |-> {p},
                           known |-> known, corrupt |-> IsCorrupt(store[p])]
                /\ IF LoadUnlinks(store[p])
                   THEN /\ store' = [store EXCEPT ![p] = NoDb]
                        /\ dbOrder' = Unlinked(dbOrder, p)
                   ELSE UNCHANGED <<store, dbOrder>>
       /\ UNCHANGED <<disk, clock, wr, rd, sessions, qa, watch>>

DeleteProject(project_identifier) ==
    LET matches == {p \in DOMAIN store : DeleteMatches(store[p], project_identifier)}
    IN /\ wr.pc = "idle"
       /\ rd.pc = "idle"
       /\ IF matches = {}
          THEN /\ ret' = [op |-> "delete_project", arg |-> project_identifier,
                          val |-> FALSE, db_path |-> {}]
               /\ UNCHANGED <<store, dbOrder>>
          ELSE \E p \in matches :
                /\ store' = [store EXCEPT ![p] = NoDb]
                /\ dbOrder' = Unlinked(dbOrder, p)
                /\ ret' = [op |-> "delete_project", arg |-> project_identifier,
                           val |-> TRUE, db_path |-> {p}]
       /\ UNCHANGED <<disk, clock, wr, rd, sessions, qa, watch>>

InvalidJson == <<"[", "alpha">>

\* The corrupt databases load_index provides for: a file written by a release
\* with another SCHEMA_VERSION, a damaged keywords field, a file that is no
\* SQLite database.
Corrupt(p, kind) ==
    /\ wr.pc = "idle"
    /\ rd.pc = "idle"
    /\ store[p].exists
    /\ store[p].readable
    /\ LoadFromDb(store[p]).ok
    /\ \/ /\ kind = "schema"
          /\ store' = [store EXCEPT ![p].meta["schema_version"] = Str(SCHEMA_VERSION - 1)]
       \/ /\ kind = "json"
          /\ \E f \in store[p].files :
                store' = [store EXCEPT ![p].files =
                            (@ \ {f}) \cup {[f EXCEPT !.keywords = InvalidJson]}]
       \/ /\ kind = "garbage"
          /\ store' = [store EXCEPT ![p].readable = FALSE]
    /\ dbOrder' = Touch(dbOrder, p)
    /\ ret' = [op |-> "corrupt", db_path |-> {p}, kind |-> kind]
    /\ UNCHANGED <<disk, clock, wr, rd, sessions, qa, watch>>

Idle == [pc |-> "idle"]

\* watcher.py line 11: the registry is empty and no loop was created
NoWatchers == [active |-> {}, loops |-> <<>>]

\* the session ids of the model; "" is the default of answer_question
SessionIds == {"s1", "s2"}

InitStore ==
    /\ store = [p \in DbPaths |-> NoDb]
    /\ dbOrder = <<>>
    /\ ret = [op |-> "start"]
    /\ wr = Idle
    /\ rd = Idle
    /\ sessions = {}
    /\ qa = Idle
    /\ watch = NoWatchers

Init ==
    /\ InitStore
    /\ disk = [r \in Roots |-> [f \in FilesOnDisk |-> NoFile]]
    /\ clock = 0

SaveTime == 12
OtherSaveTime == 7

Next ==
    \/ \E r \in Roots, X \in SlimIndexes : SaveIndex(r, X, SaveTime)
    \/ \E i \in Identifiers : LoadIndex(i)
    \/ \E i \in Identifiers : DeleteProject(i)

Spec == Init /\ [][Next]_vars

\* save_index and load_index on every index of RichIndexes for one root, with
\* a second project stored or not
NextRT ==
    \/ \E X \in RichIndexes : SaveIndex(RootAB, X, SaveTime)
    \/ \E X \in {IndexA, IndexDangling} : SaveIndex(RootApp1, X, OtherSaveTime)
    \/ \E i \in {RootAB, RootApp1} : LoadIndex(i)

SpecRT == Init /\ [][NextRT]_vars

\* databases that become corrupt between the calls
NextCorrupt ==
    \/ \E r \in {RootApp1, RootApp2}, X \in {IndexA, IndexAB} : SaveIndex(r, X, SaveTime)
    \/ \E i \in {RootApp1, RootApp2, _make_slug(RootApp1), <<>>} : LoadIndex(i)
    \/ \E p \in {_project_db_path(RootApp1), _project_db_path(RootApp2)},
          kind \in {"schema", "json", "garbage"} : Corrupt(p, kind)

SpecCorrupt == Init /\ [][NextCorrupt]_vars

----------------------------------------------------------------------------
(* The indexer: indexer.py lines 28-194 and 300-315 *)

RECURSIVE RemoveFirst(_, _)
\* list.remove(x)
RemoveFirst(s, x) ==
    IF s = <<>> THEN <<>>
    ELSE IF Head(s) = x THEN Tail(s)
    ELSE <<Head(s)>> \o RemoveFirst(Tail(s), x)

Restrict(d, keys) == [k \in keys |-> d[k]]

\* lines 300-315 without the file_index.pop of line 302
PurgeMapsOnly(rel_path, idx) ==
    LET km == [k \in DOMAIN idx.keyword_map |->
                  RemoveFirst(idx.keyword_map[k], rel_path)]
        sm == [n \in DOMAIN idx.symbol_map |->
                  SelectSeq(idx.symbol_map[n], LAMBDA e : e.file # rel_path)]
    IN [file_index |-> idx.file_index,
        keyword_map |-> Restrict(km, {k \in DOMAIN km : km[k] # <<>>}),
        symbol_map |-> Restrict(sm, {n \in DOMAIN sm : sm[n] # <<>>})]

\* indexer.py lines 300-315
_purge_file_from_maps(rel_path, idx) ==
    LET km == [k \in DOMAIN idx.keyword_map |->
                  IF rel_path \in Range(idx.keyword_map[k])
                  THEN RemoveFirst(idx.keyword_map[k], rel_path)
                  ELSE idx.keyword_map[k]]
        sm == [n \in DOMAIN idx.symbol_map |->
                  SelectSeq(idx.symbol_map[n], LAMBDA e : e.file # rel_path)]
    IN [file_index |-> Restrict(idx.file_index, (DOMAIN idx.file_index) \ {rel_path}),
        keyword_map |-> Restrict(km, {k \in DOMAIN km : km[k] # <<>>}),
        symbol_map |-> Restrict(sm, {n \in DOMAIN sm : sm[n] # <<>>})]

RECURSIVE PurgeAll(_, _)
\* lines 142-143
PurgeAll(rel_paths, idx) ==
    IF rel_paths = {} THEN idx
    ELSE LET f == CHOOSE x \in rel_paths : TRUE
         IN PurgeAll(rel_paths \ {f}, _purge_file_from_maps(f, idx))

\* lines 74-77 with an edge added only for a keyword that is new to the map
AddNewKeywordsOnly(keyword_map, keywords, rel_path) ==
    [k \in (DOMAIN keyword_map) \cup Range(keywords) |->
        IF k \in DOMAIN keyword_map THEN keyword_map[k] ELSE <<rel_path>>]

\* lines 74-77 and 164-167
AddKeywords(keyword_map, keywords, rel_path) ==
    [k \in (DOMAIN keyword_map) \cup Range(keywords) |->
        IF k \notin Range(keywords) THEN keyword_map[k]
        ELSE IF k \notin DOMAIN keyword_map THEN <<rel_path>>
        ELSE IF rel_path \in Range(keyword_map[k]) THEN keyword_map[k]
        ELSE Append(keyword_map[k], rel_path)]

\* lines 80-83 and 169-172
AddSymbols(symbol_map, symbols, rel_path) ==
    [n \in (DOMAIN symbol_map) \cup {symbols[i].name : i \in DOMAIN symbols} |->
        (IF n \in DOMAIN symbol_map THEN symbol_map[n] ELSE <<>>) \o
        LET mine == SelectSeq(symbols, LAMBDA y : y.name = n)
        IN [i \in 1..Len(mine) |-> Loc(rel_path, mine[i].line, mine[i].type)]]

\* lines 64-92 and 155-181: one file of the loop, skipped when blank
AddFile(idx, file_meta, file) ==
    LET content == read_file(file)
        symbols == extract_symbols(content)
        keywords == extract_keywords(content)
        chunks == chunk_file(content, symbols)
        rel_path == file_meta.relative_path
    IN IF IsBlank(content) THEN idx
       ELSE [file_index |->
                [f \in (DOMAIN idx.file_index) \cup {rel_path} |->
                    IF f = rel_path
                    THEN [chunks |-> chunks, keywords |-> keywords,
                          symbols |-> [i \in 1..Len(symbols) |-> symbols[i].name],
                          extension |-> file_meta.extension,
                          size_bytes |-> file_meta.size_bytes,
                          last_modified |-> file_meta.last_modified]
                    ELSE idx.file_index[f]],
             keyword_map |-> AddKeywords(idx.keyword_map, keywords, rel_path),
             symbol_map |-> AddSymbols(idx.symbol_map, symbols, rel_path)]

RECURSIVE BuildIndex(_, _, _)
\* lines 60-97: the loop of index_project over the scanned files
BuildIndex(files, dir, idx) ==
    IF files = <<>> THEN idx
    ELSE BuildIndex(Tail(files), dir,
                    AddFile(idx, Head(files), dir[Head(files).relative_path]))

RECURSIVE Reindex(_, _, _)
\* lines 148-183: the loop of update_index over the changed files
Reindex(changed, dir, idx) ==
    IF changed = <<>> THEN idx
    ELSE Reindex(Tail(changed), dir,
                 AddFile(_purge_file_from_maps(Head(changed).relative_path, idx),
                         Head(changed), dir[Head(changed).relative_path]))

\* line 146 with >= for >
ChangedOrSameTime(file_meta, since) == file_meta.last_modified >= since
\* line 146
IsChanged(file_meta, since) == file_meta.last_modified > since

EmptyIndex == Index(EmptyDict, EmptyDict, EmptyDict)

RECURSIVE ConcatAll(_)
ConcatAll(seqs) == IF seqs = <<>> THEN <<>> ELSE Head(seqs) \o ConcatAll(Tail(seqs))

EmbeddingKey(e) == <<e.rel_path, e.chunk_index>>

RECURSIVE InsertEmbeddings(_, _)
\* storage.py lines 380-383: INSERT INTO embeddings, PRIMARY KEY (rel_path,
\* chunk_index), rel_path REFERENCES files(rel_path)
InsertEmbeddings(db, rows) ==
    IF rows = <<>> THEN [ok |-> TRUE, db |-> db]
    ELSE IF Head(rows).rel_path \notin FileKeys(db) THEN [ok |-> FALSE, db |-> db]
    ELSE IF \E e \in db.embeddings : EmbeddingKey(e) = EmbeddingKey(Head(rows))
    THEN [ok |-> FALSE, db |-> db]
    ELSE InsertEmbeddings([db EXCEPT !.embeddings = @ \cup {Head(rows)}], Tail(rows))

\* lines 371-386 on an existing database that opens: [ok, db]; without the
\* commit of line 384, conn.close() drops the statements
SaveEmbeddingsDb(db, embeddings_data) ==
    LET r == InsertEmbeddings([db EXCEPT !.embeddings = {}], embeddings_data)
    IN IF r.ok THEN r ELSE [ok |-> FALSE, db |-> db]

\* the name of the vector embed_texts gives chunk i of a file
VectorNames == [f \in {"a.py", "b.py"} |->
                   IF f = "a.py" THEN <<"v-a0", "v-a1", "v-a2">>
                   ELSE <<"v-b0", "v-b1", "v-b2">>]

\* embeddings.py lines 49-66: a row for every chunk of every file
EmbeddingsData(file_index) ==
    LET files == SeqOf(DOMAIN file_index)
    IN ConcatAll([k \in 1..Len(files) |->
          [i \in 1..Len(file_index[files[k]].chunks) |->
              [rel_path |-> files[k], chunk_index |-> i - 1,
               vector |-> VectorNames[files[k]][i]]]])

\* what lines 104-112 of index_project meet: the import of skills.embeddings
\* failed, the embeddings are built and saved, embed_texts raises, or
\* save_embeddings raises
EmbOutcomes == {"unavailable", "built", "embed_fails", "save_fails"}

\* indexer.py lines 102-112 and embeddings.py lines 44-69 after save_index
\* stored db: [db, embeddings_count].  save_embeddings that raises closes its
\* connection without a commit.
BuildAndSaveEmbeddings(db, file_index, emb) ==
    LET data == EmbeddingsData(file_index)
        r == SaveEmbeddingsDb(db, data)
    IN IF emb = "built" /\ data # <<>> /\ r.ok
       THEN [db |-> r.db, embeddings_count |-> Len(data)]
       ELSE [db |-> db, embeddings_count |-> 0]

\* index_project(project_path) for an existing directory; emb is what the
\* embeddings path of lines 102-112 meets
IndexProjectWith(r, emb) ==
    LET files == scan_directory(disk[Resolve(r)])
        X == BuildIndex(files, disk[Resolve(r)], EmptyIndex)
        p == _project_db_path(r)
        saved == SaveIndexDb(store[p], X, r, clock)
        built == BuildAndSaveEmbeddings(saved.db, X.file_index, emb)
    IN /\ wr.pc = "idle"
       /\ rd.pc = "idle"
       /\ IF ~IsDir(disk[Resolve(r)])
          \* lines 40-44: the error is returned
          THEN /\ ret' = [op |-> "index_project", root |-> r, ok |-> FALSE,
                          files_indexed |-> 0, saved |-> FALSE, raised |-> FALSE]
               /\ UNCHANGED <<store, dbOrder>>
          ELSE IF files = <<>>
          THEN /\ ret' = [op |-> "index_project", root |-> r, ok |-> TRUE,
                          files_indexed |-> 0, saved |-> FALSE, raised |-> FALSE]
               /\ UNCHANGED <<store, dbOrder>>
          ELSE IF ~CanOpen(store[p])
          \* line 100: the exception of save_index leaves index_project
          THEN /\ ret' = [op |-> "index_project", root |-> r, ok |-> FALSE,
                          files_indexed |-> 0, saved |-> FALSE, raised |-> TRUE]
               /\ UNCHANGED <<store, dbOrder>>
          ELSE IF ~saved.ok \/ emb = "unavailable"
          THEN /\ store' = [store EXCEPT ![p] = saved.db]
               /\ dbOrder' = IF saved.ok \/ ~store[p].exists THEN Touch(dbOrder, p)
                             ELSE dbOrder
               /\ ret' = [op |-> "index_project", root |-> r, ok |-> saved.ok,
                          files_indexed |-> Cardinality(DOMAIN X.file_index),
                          saved |-> saved.ok, raised |-> ~saved.ok, index |-> X]
          \* lines 104-112: the exception of the embeddings path is dropped
          ELSE /\ store' = [store EXCEPT ![p] = built.db]
               /\ dbOrder' = Touch(dbOrder, p)
               /\ ret' = [op |-> "index_project", root |-> r, ok |-> TRUE,
                          files_indexed |-> Cardinality(DOMAIN X.file_index),
                          saved |-> TRUE, raised |-> FALSE, index |-> X,
                          emb |-> emb, embeddings_count |-> built.embeddings_count]
       /\ UNCHANGED <<disk, clock, wr, rd, sessions, qa, watch>>

\* index_project where the import of skills.embeddings failed
\* (sentence-transformers is optional)
IndexProject(r) == IndexProjectWith(r, "unavailable")

\* update_index returns the error "No index found" (line 129); the other
\* errors are exceptions that leave it
UpdateFailed(r, error) ==
    [op |-> "update_index", root |-> r, ok |-> FALSE, error |-> error, files_updated |-> 0,
     raised |-> error # "No index found"]

\* update_index(project_path)
UpdateIndex(r) ==
    LET paths == LoadDbPaths(store, dbOrder, r)
    IN /\ wr.pc = "idle"
       /\ rd.pc = "idle"
       /\ IF paths = {}
          THEN /\ ret' = UpdateFailed(r, "No index found")
               /\ UNCHANGED <<store, dbOrder>>
          ELSE \E lp \in paths :
            LET stored == LoadFromDb(store[lp])
                afterLoad == IF LoadUnlinks(store[lp]) THEN [store EXCEPT ![lp] = NoDb]
                             ELSE store
                orderLoad == IF LoadUnlinks(store[lp]) THEN Unlinked(dbOrder, lp)
                             ELSE dbOrder
            IN IF ~stored.ok
               THEN /\ ret' = UpdateFailed(r, "No index found")
                    /\ store' = afterLoad
                    /\ dbOrder' = orderLoad
               ELSE
                LET since == stored.indexed_at
                    project_root == stored.project_root
                    idx0 == Index(stored.file_index, stored.keyword_map, stored.symbol_map)
                    current_files == scan_directory(disk[Resolve(r)])
                    current_rel_paths ==
                        {current_files[i].relative_path : i \in DOMAIN current_files}
                    deleted == (DOMAIN stored.file_index) \ current_rel_paths
                    idx1 == PurgeAll(deleted, idx0)
                    changed == SelectSeq(current_files, LAMBDA f : IsChanged(f, since))
                    idx2 == Reindex(changed, disk[Resolve(r)], idx1)
                    sp == _project_db_path(project_root)
                    saved == SaveIndexDb(store[sp], idx2, project_root, clock)
                IN IF ~IsDir(disk[Resolve(r)])
                   \* line 138: scan_directory raises ValueError (scanner.py 72-75)
                   THEN /\ ret' = UpdateFailed(r, "ValueError: no directory")
                        /\ UNCHANGED <<store, dbOrder>>
                   ELSE IF changed # <<>> /\ Resolve(project_root) # Resolve(r)
                   \* line 150: relative_to(project_root) raises ValueError
                   THEN /\ ret' = UpdateFailed(r, "ValueError")
                        /\ UNCHANGED <<store, dbOrder>>
                   ELSE /\ store' = [store EXCEPT ![sp] = saved.db]
                        /\ dbOrder' = IF saved.ok THEN Touch(dbOrder, sp) ELSE dbOrder
                        /\ ret' = IF ~saved.ok THEN UpdateFailed(r, "IntegrityError")
                                  ELSE [op |-> "update_index", root |-> r, ok |-> TRUE,
                                        raised |-> FALSE, index |-> idx2,
                                        files_updated |-> Len(changed),
                                        files_deleted |-> Cardinality(deleted),
                                        updated_files |->
                                            [i \in 1..Len(changed) |-> changed[i].relative_path],
                                        deleted_files |-> deleted,
                                        prior_files |-> DOMAIN stored.file_index,
                                        again |-> (/\ ret.op = "update_index"
                                                   /\ ret.root = r
                                                   /\ ret.ok)]
       /\ UNCHANGED <<disk, clock, wr, rd, sessions, qa, watch>>

(* The file system under the project root, changed by the user *)

CodeA == TextContent(<<<<"def", "foo">>, <<"alpha", "beta", "alpha">>>>)
CodeB == TextContent(<<<<"the", "alpha", "gamma", "id">>>>)
BlankText == TextContent(<<<<>>, <<>>>>)
\* the contents a file of the model takes
ContentsOf(f) == IF f = "a.py" THEN {CodeA, BlankText} ELSE {CodeB, CodeA, BinaryContent}

MaxClock == 1

\* a file is written (created or modified) now
WriteFile(r, f, content) ==
    /\ wr.pc = "idle"
    /\ rd.pc = "idle"
    /\ IsDir(disk[r])
    /\ disk' = [disk EXCEPT ![r][f] = File(content, clock)]
    /\ ret' = [op |-> "disk"]
    /\ UNCHANGED <<store, dbOrder, clock, wr, rd, sessions, qa, watch>>

\* a file appears with the modification time it had elsewhere (mv, cp -p,
\* tar -x, a restored backup), which the clock of this machine may not have
\* reached yet
MoveFileIn(r, f, content, mtime) ==
    /\ wr.pc = "idle"
    /\ rd.pc = "idle"
    /\ IsDir(disk[r])
    /\ ~disk[r][f].exists
    /\ mtime <= clock + 1
    /\ disk' = [disk EXCEPT ![r][f] = File(content, mtime)]
    /\ ret' = [op |-> "disk"]
    /\ UNCHANGED <<store, dbOrder, clock, wr, rd, sessions, qa, watch>>

RemoveFile(r, f) ==
    /\ wr.pc = "idle"
    /\ rd.pc = "idle"
    /\ IsDir(disk[r])
    /\ disk[r][f].exists
    /\ disk' = [disk EXCEPT ![r][f] = NoFile]
    /\ ret' = [op |-> "disk"]
    /\ UNCHANGED <<store, dbOrder, clock, wr, rd, sessions, qa, watch>>

Tick ==
    /\ clock < MaxClock
    /\ clock' = clock + 1
    /\ UNCHANGED <<store, dbOrder, disk, ret, wr, rd, sessions, qa, watch>>

NextIdx ==
    \/ IndexProject(RootAB)
    \/ UpdateIndex(RootAB)
    \/ \E f \in FilesOnDisk : \E c \in ContentsOf(f) : WriteFile(RootAB, f, c)
    \/ \E f \in FilesOnDisk : \E c \in ContentsOf(f), m \in {0, clock + 1} : MoveFileIn(RootAB, f, c, m)
    \/ \E f \in FilesOnDisk : RemoveFile(RootAB, f)
    \/ Tick

SpecIdx == Init /\ [][NextIdx]_vars

----------------------------------------------------------------------------
(* save_index and load_index statement by statement, each on its own        *)
(* connection to a database in WAL mode.  The writer's statements between    *)
(* BEGIN and commit change wr.db, which no other connection sees; commit     *)
(* makes it the committed store[p].  The reader never issues BEGIN, so every *)
(* SELECT of load_index is a transaction of its own and reads the database   *)
(* as committed when that SELECT runs.                                       *)

\* storage.py lines 103-112: _get_db (which creates a missing file and its
\* tables), BEGIN and the five DELETEs
WrBegin(project_root, X, indexed_at) ==
    LET p == _project_db_path(project_root)
    IN /\ wr.pc = "idle"
       /\ CanOpen(store[p])
       /\ wr' = [pc |-> "meta", p |-> p, root |-> project_root, X |-> X, t |-> indexed_at,
                 before |-> _get_db(store[p]), db |-> ClearTables(_get_db(store[p]))]
       /\ store' = [store EXCEPT ![p] = _get_db(store[p])]
       /\ dbOrder' = IF store[p].exists THEN dbOrder ELSE Touch(dbOrder, p)
       /\ UNCHANGED <<disk, clock, ret, rd, sessions, qa, watch>>

\* lines 115-122
WrMeta ==
    /\ wr.pc = "meta"
    /\ wr' = [wr EXCEPT !.pc = "files",
                        !.db = WriteMeta(wr.db, wr.X.file_index, wr.root, wr.t)]
    /\ UNCHANGED <<store, dbOrder, disk, clock, ret, rd, sessions, qa, watch>>

\* lines 125-138
WrFiles ==
    /\ wr.pc = "files"
    /\ wr' = [wr EXCEPT !.pc = "symbols", !.db = InsertFiles(wr.db, wr.X.file_index)]
    /\ UNCHANGED <<store, dbOrder, disk, clock, ret, rd, sessions, qa, watch>>

\* lines 141-146; a failed INSERT raises
WrSymbols ==
    LET r == InsertSymbols(wr.db, SymbolRows(wr.X.symbol_map))
    IN /\ wr.pc = "symbols"
       /\ wr' = [wr EXCEPT !.pc = IF r.ok THEN "keywords" ELSE "except", !.db = r.db]
       /\ UNCHANGED <<store, dbOrder, disk, clock, ret, rd, sessions, qa, watch>>

\* lines 149-154
WrKeywords ==
    LET r == InsertKeywords(wr.db, KeywordRows(wr.X.keyword_map))
    IN /\ wr.pc = "keywords"
       /\ wr' = [wr EXCEPT !.pc = IF r.ok THEN "commit" ELSE "except", !.db = r.db]
       /\ UNCHANGED <<store, dbOrder, disk, clock, ret, rd, sessions, qa, watch>>

\* line 156.  A load_index in progress on the same file has one more committed
\* state of the database behind it: rd.snapshots records the state it opened
\* and the first two commits after that.
WrCommit ==
    /\ wr.pc = "commit"
    /\ store' = IF store[wr.p].exists THEN [store EXCEPT ![wr.p] = wr.db] ELSE store
    /\ dbOrder' = IF store[wr.p].exists THEN Touch(dbOrder, wr.p) ELSE dbOrder
    /\ rd' = IF rd.pc # "idle" /\ rd.p = wr.p /\ store[wr.p].exists
             THEN [rd EXCEPT !.snapshots = IF Len(@) < 3 THEN Append(@, wr.db) ELSE @]
             ELSE rd
    /\ ret' = [op |-> "save_index", root |-> wr.root, X |-> wr.X, t |-> wr.t,
               ok |-> TRUE, began |-> TRUE]
    /\ wr' = Idle
    /\ UNCHANGED <<disk, clock, sessions, qa, watch>>

\* lines 157-159
WrRollback ==
    /\ wr.pc = "except"
    /\ ret' = [op |-> "save_index", root |-> wr.root, X |-> wr.X, t |-> wr.t,
               ok |-> FALSE, began |-> TRUE]
    /\ wr' = Idle
    /\ UNCHANGED <<store, dbOrder, disk, clock, rd, sessions, qa, watch>>

NoRow == [found |-> FALSE]

\* SELECT value FROM meta WHERE key=? ... fetchone()
MetaRow(db, k) ==
    IF db.exists /\ k \in DOMAIN db.meta THEN [found |-> TRUE, value |-> db.meta[k]]
    ELSE NoRow

\* load_index returns val, after db_path.unlink() when it returns from an
\* except branch
RdReturn(val, unlink) ==
    /\ ret' = [op |-> "load_index", arg |-> rd.arg, val |-> val, db_path |-> {rd.p},
               known |-> TRUE, corrupt |-> FALSE, snapshots |-> rd.snapshots]
    /\ rd' = Idle
    /\ IF unlink
       THEN /\ store' = [store EXCEPT ![rd.p] = NoDb]
            /\ dbOrder' = Unlinked(dbOrder, rd.p)
       ELSE UNCHANGED <<store, dbOrder>>
    /\ UNCHANGED <<disk, clock, wr, sessions, qa, watch>>

RdGoto(pc) ==
    /\ rd' = [rd EXCEPT !.pc = pc]
    /\ UNCHANGED <<store, dbOrder, disk, clock, ret, wr, sessions, qa, watch>>

RdStep(next) ==
    /\ rd' = next
    /\ UNCHANGED <<store, dbOrder, disk, clock, ret, wr, sessions, qa, watch>>

\* lines 176-190: the database is resolved and opened
RdOpen(project_path) ==
    LET paths == LoadDbPaths(store, dbOrder, project_path)
    IN /\ rd.pc = "idle"
       /\ IF paths = {}
          THEN /\ ret' = [op |-> "load_index", arg |-> project_path, val |-> Absent,
                          db_path |-> {}, known |-> KnownHandle(store, project_path),
                          corrupt |-> FALSE, snapshots |-> <<>>]
               /\ UNCHANGED <<store, dbOrder, rd>>
          ELSE \E p \in paths :
                IF ~CanOpen(store[p])
                THEN /\ store' = [store EXCEPT ![p] = NoDb]
                     /\ dbOrder' = Unlinked(dbOrder, p)
                     /\ ret' = [op |-> "load_index", arg |-> project_path, val |-> Absent,
                                db_path |-> {p}, known |-> TRUE, corrupt |-> TRUE,
                                snapshots |-> <<>>]
                     /\ UNCHANGED rd
                ELSE /\ rd' = [pc |-> "schema_version", arg |-> project_path, p |-> p,
                               snapshots |-> <<store[p]>>, project_root |-> NoRow,
                               indexed_at |-> NoRow, files |-> {}, todo |-> <<>>,
                               chunks |-> <<>>, file_index |-> EmptyDict,
                               keyword_map |-> EmptyDict, symbol_map |-> EmptyDict,
                               slug |-> NoRow]
                     /\ UNCHANGED <<store, dbOrder, ret>>
       /\ UNCHANGED <<disk, clock, wr, sessions, qa, watch>>

\* lines 194-196
RdSchemaVersion ==
    LET row == MetaRow(store[rd.p], "schema_version")
    IN /\ rd.pc = "schema_version"
       /\ IF ~row.found THEN RdReturn(Absent, FALSE)
          ELSE IF ~IsNumeral(row.value) THEN RdReturn(Absent, TRUE)
          ELSE IF ParseNum(row.value) # SCHEMA_VERSION THEN RdReturn(Absent, FALSE)
          ELSE RdGoto("project_root")

\* line 198
RdProjectRoot ==
    /\ rd.pc = "project_root"
    /\ RdStep([rd EXCEPT !.pc = "indexed_at",
                         !.project_root = MetaRow(store[rd.p], "project_root")])

\* lines 199-201
RdIndexedAt ==
    LET row == MetaRow(store[rd.p], "indexed_at")
    IN /\ rd.pc = "indexed_at"
       /\ IF ~rd.project_root.found \/ ~row.found THEN RdReturn(Absent, FALSE)
          ELSE RdStep([rd EXCEPT !.pc = "files", !.indexed_at = row])

\* line 205: SELECT * FROM files ... fetchall()
RdFiles ==
    LET rows == IF store[rd.p].exists THEN store[rd.p].files ELSE {}
        todo == SeqOf({f.rel_path : f \in rows})
    IN /\ rd.pc = "files"
       /\ RdStep([rd EXCEPT !.pc = IF todo = <<>> THEN "keyword_files" ELSE "chunks",
                            !.files = rows, !.todo = todo])

\* lines 208-216, for the file row the loop of line 205 is at
RdChunks ==
    /\ rd.pc = "chunks"
    /\ RdStep([rd EXCEPT !.pc = "symbol_names",
                         !.chunks = IF store[rd.p].exists
                                    THEN SelectChunks(store[rd.p], Head(rd.todo))
                                    ELSE <<>>])

\* lines 218-227
RdSymbolNames ==
    LET rel_path == Head(rd.todo)
        file_row == CHOOSE f \in rd.files : f.rel_path = rel_path
        names == IF store[rd.p].exists THEN SelectSymbolNames(store[rd.p], rel_path)
                 ELSE <<>>
    IN /\ rd.pc = "symbol_names"
       /\ IF ~JsonValid(file_row.keywords) THEN RdReturn(Absent, TRUE)
          ELSE RdStep([rd EXCEPT
                  !.pc = IF Tail(rd.todo) = <<>> THEN "keyword_files" ELSE "chunks",
                  !.todo = Tail(rd.todo),
                  !.file_index = (rel_path :> FileEntry(file_row, rd.chunks, names)) @@ @])

\* lines 230-232
RdKeywordFiles ==
    /\ rd.pc = "keyword_files"
    /\ RdStep([rd EXCEPT !.pc = "symbols",
                         !.keyword_map = IF store[rd.p].exists
                                         THEN SelectKeywordMap(store[rd.p])
                                         ELSE EmptyDict])

\* lines 235-241
RdSymbols ==
    /\ rd.pc = "symbols"
    /\ RdStep([rd EXCEPT !.pc = "slug",
                         !.symbol_map = IF store[rd.p].exists
                                        THEN SelectSymbolMap(store[rd.p])
                                        ELSE EmptyDict])

\* line 243
RdSlug ==
    /\ rd.pc = "slug"
    /\ RdStep([rd EXCEPT !.pc = "project_id", !.slug = MetaRow(store[rd.p], "slug")])

\* lines 244-256
RdProjectId ==
    LET pid_row == MetaRow(store[rd.p], "project_id")
        root_val == rd.project_root.value
    IN /\ rd.pc = "project_id"
       /\ IF ~IsNumeral(rd.indexed_at.value) THEN RdReturn(Absent, TRUE)
          ELSE RdReturn(
                 LoadedIndex(root_val, ParseNum(rd.indexed_at.value),
                     IF rd.slug.found THEN rd.slug.value ELSE _make_slug(root_val),
                     IF pid_row.found THEN pid_row.value ELSE _make_project_id(root_val),
                     rd.file_index, rd.keyword_map, rd.symbol_map),
                 FALSE)

NextRW ==
    \/ WrBegin(RootAB, IndexA, OtherSaveTime)
    \/ \E X \in {IndexAB, IndexDangling} : WrBegin(RootAB, X, SaveTime)
    \/ WrMeta
    \/ WrFiles
    \/ WrSymbols
    \/ WrKeywords
    \/ WrCommit
    \/ WrRollback
    \/ RdOpen(RootAB)
    \/ RdSchemaVersion
    \/ RdProjectRoot
    \/ RdIndexedAt
    \/ RdFiles
    \/ RdChunks
    \/ RdSymbolNames
    \/ RdKeywordFiles
    \/ RdSymbols
    \/ RdSlug
    \/ RdProjectId

SpecRW == Init /\ [][NextRW]_vars

----------------------------------------------------------------------------
(* Two project roots under the indexer, with the deletion of a project *)

MultiRoots == {RootApp1, RootAB}

NextMulti ==
    \/ \E r \in MultiRoots : IndexProject(r)
    \/ \E r \in MultiRoots : UpdateIndex(r)
    \/ \E r \in MultiRoots : DeleteProject(r)
    \/ \E r \in MultiRoots : WriteFile(r, "a.py", CodeA)
    \/ RemoveFile(RootAB, "a.py")
    \/ Tick

SpecMulti == Init /\ [][NextMulti]_vars

----------------------------------------------------------------------------
(* The shared session store: storage.py lines 411-478 *)

SessionRows(table, session_id) == {r \in table : r.id = session_id}

\* COALESCE(MAX(turn_index), 0): the first turn of a session gets index 1
MaxTurnIndexOrZero(table, session_id) ==
    IF SessionRows(table, session_id) = {} THEN 0
    ELSE CHOOSE m \in {r.turn_index : r \in SessionRows(table, session_id)} :
            \A r \in SessionRows(table, session_id) : r.turn_index <= m

\* lines 438-441: SELECT COALESCE(MAX(turn_index), -1) FROM sessions WHERE id=?
MaxTurnIndex(table, session_id) ==
    IF SessionRows(table, session_id) = {} THEN -1
    ELSE CHOOSE m \in {r.turn_index : r \in SessionRows(table, session_id)} :
            \A r \in SessionRows(table, session_id) : r.turn_index <= m

\* lines 443-447: the row inserted
SessionRow(session_id, turn_index, question, answer, relevant_files, created_at) ==
    [id |-> session_id, turn_index |-> turn_index, question |-> question,
     answer |-> answer, relevant_files |-> JsonDumps(relevant_files),
     created_at |-> created_at]

\* lines 432-451: the table after save_session_turn, and the index returned.
\* PRIMARY KEY (id, turn_index): an INSERT on a stored key raises.
save_session_turn(table, session_id, question, answer, relevant_files, created_at) ==
    LET turn_index == MaxTurnIndex(table, session_id) + 1
    IN IF \E r \in SessionRows(table, session_id) : r.turn_index = turn_index
       THEN [ok |-> FALSE, table |-> table]
       ELSE [ok |-> TRUE, turn_index |-> turn_index,
             table |-> table \cup {SessionRow(session_id, turn_index, question, answer,
                                              relevant_files, created_at)}]

RECURSIVE OrderByTurnIndexDesc(_)
OrderByTurnIndexDesc(rows) ==
    IF rows = {} THEN <<>>
    ELSE LET r == CHOOSE x \in rows : \A y \in rows : y.turn_index <= x.turn_index
         IN <<r>> \o OrderByTurnIndexDesc(rows \ {r})

\* LIMIT n: a negative n is no limit
Limit(rows, n) == IF n < 0 \/ n >= Len(rows) THEN rows ELSE SubSeq(rows, 1, n)

\* the rows in the order of the SELECT, not reversed
NotReversed(s) == s
\* line 472: reversed(rows)
Reversed(s) == [i \in 1..Len(s) |-> s[Len(s) + 1 - i]]

\* lines 454-478
load_session(table, session_id, max_turns) ==
    LET rows == Limit(OrderByTurnIndexDesc(SessionRows(table, session_id)), max_turns)
        rev == Reversed(rows)
    IN IF \E i \in DOMAIN rows : ~JsonValid(rows[i].relevant_files) THEN <<>>
       ELSE [i \in 1..Len(rev) |->
               [question |-> rev[i].question, answer |-> rev[i].answer,
                relevant_files |-> JsonLoads(rev[i].relevant_files)]]

\* the turns a session of the model is given
MaxTurns == 3
\* the default of max_turns
DEFAULT_MAX_TURNS == 5

Exchanges ==
    {[question |-> <<"alpha", "foo">>, answer |-> "answer-1", relevant_files |-> <<"a.py">>],
     [question |-> <<"gamma">>, answer |-> "answer-2", relevant_files |-> <<"b.py", "a.py">>]}

SaveSessionTurn(session_id, question, answer, relevant_files) ==
    LET r == save_session_turn(sessions, session_id, question, answer, relevant_files, clock)
    IN /\ qa.pc = "idle"
       /\ Cardinality(SessionRows(sessions, session_id)) < MaxTurns
       /\ sessions' = r.table
       /\ ret' = IF r.ok
                 THEN [op |-> "save_session_turn", session_id |-> session_id, ok |-> TRUE,
                       val |-> r.turn_index]
                 ELSE [op |-> "save_session_turn", session_id |-> session_id, ok |-> FALSE]
       /\ UNCHANGED <<store, dbOrder, disk, clock, wr, rd, qa, watch>>

LoadSession(session_id, max_turns) ==
    /\ qa.pc = "idle"
    /\ ret' = [op |-> "load_session", session_id |-> session_id, max_turns |-> max_turns,
               val |-> load_session(sessions, session_id, max_turns)]
    /\ UNCHANGED <<store, dbOrder, disk, clock, wr, rd, sessions, qa, watch>>

NextSessions ==
    \/ \E sid \in SessionIds, x \in Exchanges :
          SaveSessionTurn(sid, x.question, x.answer, x.relevant_files)
    \/ \E sid \in SessionIds \cup {"s9"}, n \in 0..(MaxTurns + 1) : LoadSession(sid, n)

SpecSessions == Init /\ [][NextSessions]_vars

----------------------------------------------------------------------------
(* save_embeddings, list_indexed_projects and the projects directory *)

\* lines 288-301: the entry of one database
ProjectEntry(db) ==
    LET project_root == db.meta["project_root"]
    IN [project_id |-> IF "project_id" \in DOMAIN db.meta THEN db.meta["project_id"]
                       ELSE _make_project_id(project_root),
        slug |-> IF "slug" \in DOMAIN db.meta THEN db.meta["slug"]
                 ELSE _make_slug(project_root),
        project_root |-> project_root,
        indexed_at |-> IF "indexed_at" \in DOMAIN db.meta
                       THEN ParseNum(db.meta["indexed_at"]) ELSE 0,
        total_files |-> IF "total_files" \in DOMAIN db.meta
                        THEN ParseNum(db.meta["total_files"]) ELSE 0]

\* a database list_indexed_projects reports: it opens, has a project_root row
\* and numerals where float() and int() are applied
IsListed(db) ==
    /\ db.exists
    /\ db.readable
    /\ "project_root" \in DOMAIN db.meta
    /\ "indexed_at" \in DOMAIN db.meta => IsNumeral(db.meta["indexed_at"])
    /\ "total_files" \in DOMAIN db.meta => IsNumeral(db.meta["total_files"])

\* lines 279-305, as the set of the entries (glob decides their order)
list_indexed_projects(st) == {ProjectEntry(st[p]) : p \in {q \in DOMAIN st : IsListed(st[q])}}

EmbA == <<[rel_path |-> "a.py", chunk_index |-> 0, vector |-> "v-a0"],
          [rel_path |-> "a.py", chunk_index |-> 1, vector |-> "v-a1"]>>
\* with a vector for a file that IndexA does not hold
EmbAB == EmbA \o <<[rel_path |-> "b.py", chunk_index |-> 0, vector |-> "v-b0"]>>

SaveEmbeddings(project_root, embeddings_data) ==
    LET p == _project_db_path(project_root)
        r == SaveEmbeddingsDb(store[p], embeddings_data)
    IN /\ wr.pc = "idle"
       /\ rd.pc = "idle"
       /\ IF ~store[p].exists
          THEN /\ ret' = [op |-> "save_embeddings", root |-> project_root, ok |-> TRUE,
                          stored |-> FALSE]
               /\ UNCHANGED <<store, dbOrder>>
          ELSE IF ~store[p].readable
          THEN /\ ret' = [op |-> "save_embeddings", root |-> project_root, ok |-> FALSE,
                          stored |-> FALSE]
               /\ UNCHANGED <<store, dbOrder>>
          ELSE /\ store' = [store EXCEPT ![p] = r.db]
               /\ dbOrder' = IF r.ok THEN Touch(dbOrder, p) ELSE dbOrder
               /\ ret' = [op |-> "save_embeddings", root |-> project_root, ok |-> r.ok,
                          stored |-> r.ok]
       /\ UNCHANGED <<disk, clock, wr, rd, sessions, qa, watch>>

\* qa.py list_projects
ListProjects ==
    /\ wr.pc = "idle"
    /\ rd.pc = "idle"
    /\ ret' = [op |-> "list_projects", projects |-> list_indexed_projects(store),
               total |-> Cardinality(list_indexed_projects(store))]
    /\ UNCHANGED <<store, dbOrder, disk, clock, wr, rd, sessions, qa, watch>>

ProjectRoots == {RootApp1, RootApp2}
ProjectHandles ==
    ProjectRoots \cup {_make_slug(r) : r \in ProjectRoots}
        \cup {_make_project_id(r) : r \in ProjectRoots} \cup {UnknownPath, <<>>}

NextProjects ==
    \/ SaveIndex(RootApp1, IndexA, OtherSaveTime)
    \/ \E X \in {IndexAB, IndexDangling} : SaveIndex(RootApp2, X, SaveTime)
    \/ \E r \in ProjectRoots, e \in {EmbA, EmbAB} : SaveEmbeddings(r, e)
    \/ \E i \in ProjectHandles : LoadIndex(i)
    \/ \E i \in ProjectHandles : DeleteProject(i)
    \/ ListProjects
    \/ SaveSessionTurn("s1", <<"alpha", "foo">>, "answer-1", <<"a.py">>)

SpecProjects == Init /\ [][NextProjects]_vars

\* save_index stamped with the time of the call, as the indexer calls it
NextLatest ==
    \/ \E r \in ProjectRoots, X \in {IndexA, IndexAB} : SaveIndex(r, X, clock)
    \/ \E r \in ProjectRoots : SaveEmbeddings(r, EmbA)
    \/ \E i \in {<<>>, RootApp1} : LoadIndex(i)
    \/ \E r \in ProjectRoots : DeleteProject(r)
    \/ ListProjects
    \/ Tick

SpecLatest == Init /\ [][NextLatest]_vars

\* one directory under two spellings of its path
SpelledRoots == {RootApp1, RootApp1Slash}

NextSpelled ==
    \/ \E r \in SpelledRoots : IndexProject(r)
    \/ \E r \in SpelledRoots : UpdateIndex(r)
    \/ \E r \in SpelledRoots : LoadIndex(r)
    \/ ListProjects
    \/ WriteFile(RootApp1, "a.py", CodeA)
    \/ Tick

SpecSpelled == Init /\ [][NextSpelled]_vars

----------------------------------------------------------------------------
(* Retrieval and answering: qa.py lines 17-225.  Scores are in thousandths. *)

MIN_SCORE == 500
SYMBOL_BOOST == 5000
\* a semantic score counts above 0.3 and is weighted by 3
SEMANTIC_THRESHOLD == 300
SEMANTIC_WEIGHT == 3
TOP_FILES == 5
QUERY_TOP_N == 10
HISTORY_TOP_N == 5

\* 1000 * ln(n), rounded
LnMilli(n) ==
    CASE n = 1 -> 0
      [] n = 2 -> 693
      [] n = 3 -> 1099
      [] n = 7 -> 1946
      [] OTHER -> 1386

\* line 50: 1000 * ln((total_files - df + 0.5) / (df + 0.5) + 1), rounded,
\* for the indexes of at most three files and of six files
Idf(total_files, df) ==
    CASE <<total_files, df>> = <<1, 1>> -> 288
      [] <<total_files, df>> = <<2, 1>> -> 693
      [] <<total_files, df>> = <<2, 2>> -> 182
      [] <<total_files, df>> = <<3, 1>> -> 981
      [] <<total_files, df>> = <<3, 2>> -> 470
      [] <<total_files, df>> = <<6, 1>> -> 1540
      [] <<total_files, df>> = <<6, 2>> -> 1030
      [] <<total_files, df>> = <<6, 3>> -> 693
      [] <<total_files, df>> = <<6, 4>> -> 442
      [] <<total_files, df>> = <<6, 5>> -> 241
      [] <<total_files, df>> = <<6, 6>> -> 74
      [] OTHER -> 134

RECURSIVE SumAmounts(_)
SumAmounts(contribs) ==
    IF contribs = <<>> THEN 0 ELSE Head(contribs).amount + SumAmounts(Tail(contribs))

\* lines 45-53: a keyword of the query adds its idf to every file it maps to
KeywordContribs(query_keywords, keyword_map, total_files) ==
    ConcatAll([i \in 1..Len(query_keywords) |->
        IF query_keywords[i] \notin DOMAIN keyword_map THEN <<>>
        ELSE LET files_with_kw == keyword_map[query_keywords[i]]
             IN [j \in 1..Len(files_with_kw) |->
                   [file |-> files_with_kw[j],
                    amount |-> Idf(total_files, Len(files_with_kw))]]])

\* lines 39-42: the query words that are symbol names, in first-seen order
SymbolHits(query_words, symbol_map) ==
    SelectSeq(Dedup(query_words), LAMBDA w : w \in DOMAIN symbol_map)

\* lines 56-59
SymbolContribs(hits, symbol_map) ==
    ConcatAll([i \in 1..Len(hits) |->
        [j \in 1..Len(symbol_map[hits[i]]) |->
            [file |-> symbol_map[hits[i]][j].file, amount |-> SYMBOL_BOOST]]])

\* embeddings.py lines 73-101 on the rows of the project: (rel_path, score)
\* of every stored vector, sim being the cosine similarity the embedding model
\* gives the query against each vector
\* load_and_search does not raise
RaisesNever(sim) == FALSE
\* load_and_search raises for this query (the embedding model does not load,
\* a stored vector does not decode)
Raises(sim) == "raises" \in DOMAIN sim

load_and_search(db, sim) ==
    LET rows == SeqOf(db.embeddings)
    IN [i \in 1..Len(rows) |-> [rel_path |-> rows[i].rel_path, score |-> sim[rows[i].vector]]]

\* lines 62-69
SemanticContribs(sem_results) ==
    LET hits == SelectSeq(sem_results, LAMBDA r : r.score > SEMANTIC_THRESHOLD)
    IN [i \in 1..Len(hits) |->
          [file |-> hits[i].rel_path, amount |-> SEMANTIC_WEIGHT * hits[i].score]]

ScoreOf(file, contribs) == SumAmounts(SelectSeq(contribs, LAMBDA c : c.file = file))

RECURSIVE SortByScore(_, _)
\* list.sort(key=score, reverse=True): stable
UnsortedByScore(files, contribs) == files
SortByScore(files, contribs) ==
    IF files = <<>> THEN <<>>
    ELSE LET best == CHOOSE i \in DOMAIN files :
                /\ \A j \in DOMAIN files :
                      ScoreOf(files[i], contribs) >= ScoreOf(files[j], contribs)
                /\ \A j \in 1..(i - 1) :
                      ScoreOf(files[j], contribs) < ScoreOf(files[i], contribs)
         IN <<files[best]>> \o
            SortByScore(SubSeq(files, 1, best - 1) \o SubSeq(files, best + 1, Len(files)),
                        contribs)

\* lines 101-105
Confidence(top_score, keyword_count, total_files) ==
    LET max_possible == IF total_files = 0 THEN 1000
                        ELSE keyword_count * LnMilli(total_files + 1) + SYMBOL_BOOST
    IN IF 10 * top_score >= 3 * max_possible THEN "high"
       ELSE IF 10 * top_score >= max_possible THEN "medium"
       ELSE "low"

\* lines 29-118.  query is the list of the words of the query; semantic is
\* EMBEDDINGS_AVAILABLE; db is the database of project_root.
_retrieve_context(query, idx, semantic, db, sim) ==
    LET query_keywords == ExtractKeywords(<<query>>, QUERY_TOP_N)
        total_files == Cardinality(DOMAIN idx.file_index)
        symbol_hits == SymbolHits(query, idx.symbol_map)
        \* lines 68-69: an exception of load_and_search leaves file_scores
        sem == IF semantic /\ total_files > 0 /\ db.exists /\ db.readable /\ ~Raises(sim)
               THEN SemanticContribs(load_and_search(db, sim))
               ELSE <<>>
        contribs == KeywordContribs(query_keywords, idx.keyword_map, total_files)
                        \o SymbolContribs(symbol_hits, idx.symbol_map) \o sem
        scored == Dedup([i \in 1..Len(contribs) |-> contribs[i].file])
        ranked == SortByScore(
                      SelectSeq(scored, LAMBDA f : ScoreOf(f, contribs) >= MIN_SCORE),
                      contribs)
        top_score == IF ranked = <<>> THEN 0 ELSE ScoreOf(ranked[1], contribs)
    IN [top_files |-> SubSeq(ranked, 1, Min(TOP_FILES, Len(ranked))),
        symbol_hits |-> symbol_hits,
        confidence |-> Confidence(top_score, Len(query_keywords), total_files),
        top_score |-> top_score]

\* the cosine similarities (in thousandths) the embedding model may give a
\* query against a stored vector: below and above 0.3
SimScores == {200, 600}
EmbVectors == {EmbA[i].vector : i \in DOMAIN EmbA}

\* the whole history
AllTurns(s) == s
\* history[-2:]
LastTwo(s) == IF Len(s) <= 2 THEN s ELSE SubSeq(s, Len(s) - 1, Len(s))

\* qa.py lines 148-159: the question followed by the keywords of the questions
\* of the last two turns
EnrichedQuery(question, history) ==
    question \o ConcatAll([i \in 1..Len(LastTwo(history)) |->
                              ExtractKeywords(<<LastTwo(history)[i].question>>, HISTORY_TOP_N)])

\* line 206, with the turn saved whatever the session_id
SavesTurnAlways(session_id) == TRUE
\* line 206: "if session_id"
SavesTurn(session_id) == session_id # ""

\* load_index(project_path) as the first statement of a reasoner: the value
\* loaded from database p (NoDb when no file is found), and the unlink of a
\* file that does not open
QaLoad(project_path, p) ==
    /\ wr.pc = "idle"
    /\ rd.pc = "idle"
    /\ IF LoadDbPaths(store, dbOrder, project_path) = {}
       THEN p \notin DOMAIN store
       ELSE p \in LoadDbPaths(store, dbOrder, project_path)
    /\ IF p \in DOMAIN store /\ LoadUnlinks(store[p])
       THEN /\ store' = [store EXCEPT ![p] = NoDb]
            /\ dbOrder' = Unlinked(dbOrder, p)
       ELSE UNCHANGED <<store, dbOrder>>

QaStored(p) == IF p \in DOMAIN store THEN LoadFromDb(store[p]) ELSE Absent

\* the database load_and_search opens for the project root of the index
QaEmbeddingsDb(stored) ==
    IF _project_db_path(stored.project_root) \in DOMAIN store
    THEN store[_project_db_path(stored.project_root)]
    ELSE NoDb

NoPath == <<"none">>

\* the turns a session is given by answer_question
MaxQaTurns == 2

\* qa.py lines 132-203: answer_question up to the await of the language model.
\* semantic is EMBEDDINGS_AVAILABLE, a fact of the installation.
AnswerQuestion(question, session_id, project_path, semantic, sim) ==
    \E p \in DOMAIN store \cup {NoPath} :
       LET stored == QaStored(p)
           history == IF session_id # ""
                      THEN load_session(sessions, session_id, DEFAULT_MAX_TURNS) ELSE <<>>
           retrieved == _retrieve_context(EnrichedQuery(question, history), stored,
                                          semantic, QaEmbeddingsDb(stored), sim)
       IN /\ qa.pc = "idle"
          /\ QaLoad(project_path, p)
          /\ IF ~stored.ok
             THEN /\ ret' = [op |-> "answer_question", question |-> question,
                             session_id |-> session_id, loaded |-> FALSE, retrieved |-> <<>>,
                             llm |-> FALSE, relevant_files |-> <<>>, confidence |-> "low"]
                  /\ qa' = qa
             ELSE IF retrieved.top_files = <<>>
             THEN /\ ret' = [op |-> "answer_question", question |-> question,
                             session_id |-> session_id, loaded |-> TRUE, retrieved |-> <<>>,
                             llm |-> FALSE, relevant_files |-> <<>>, confidence |-> "low",
                             scored |-> EnrichedQuery(question, history)]
                  /\ qa' = qa
             ELSE /\ qa' = [pc |-> "awaiting_llm", question |-> question,
                            session_id |-> session_id, loaded |-> stored.ok,
                            top_files |-> retrieved.top_files,
                            confidence |-> retrieved.confidence]
                  /\ ret' = [op |-> "ai", question |-> question, session_id |-> session_id,
                             scored |-> EnrichedQuery(question, history)]
          /\ UNCHANGED <<disk, clock, wr, rd, sessions, watch>>

\* answer_question while the session is short of the turns of the model
AnswerBegin(question, session_id, project_path, semantic, sim) ==
    /\ Cardinality(SessionRows(sessions, session_id)) < MaxQaTurns
    /\ AnswerQuestion(question, session_id, project_path, semantic, sim)

\* lines 205-223: the language model answered
LlmAnswers(answer) ==
    /\ qa.pc = "awaiting_llm"
    /\ sessions' = IF SavesTurn(qa.session_id)
                   THEN save_session_turn(sessions, qa.session_id, qa.question, answer,
                                          qa.top_files, clock).table
                   ELSE sessions
    /\ ret' = [op |-> "answer_question", question |-> qa.question,
               session_id |-> qa.session_id, loaded |-> qa.loaded,
               retrieved |-> qa.top_files, llm |-> TRUE, answer |-> answer,
               relevant_files |-> qa.top_files, confidence |-> qa.confidence]
    /\ qa' = Idle
    /\ UNCHANGED <<store, dbOrder, disk, clock, wr, rd, watch>>

\* line 188 raises: answer_question ends with the exception
LlmFails ==
    /\ qa.pc = "awaiting_llm"
    /\ ret' = [op |-> "answer_question", question |-> qa.question,
               session_id |-> qa.session_id, loaded |-> qa.loaded,
               retrieved |-> qa.top_files, llm |-> TRUE, raised |-> TRUE]
    /\ qa' = Idle
    /\ UNCHANGED <<store, dbOrder, disk, clock, wr, rd, sessions, watch>>

\* lines 227-254
FindRelevantFiles(query, project_path, semantic, sim) ==
    \E p \in DOMAIN store \cup {NoPath} :
       LET stored == QaStored(p)
           retrieved == _retrieve_context(query, stored, semantic, QaEmbeddingsDb(stored), sim)
       IN /\ qa.pc = "idle"
          /\ QaLoad(project_path, p)
          /\ ret' = IF ~stored.ok
                    THEN [op |-> "find_relevant_files", query |-> query, loaded |-> FALSE,
                          files |-> <<>>]
                    ELSE [op |-> "find_relevant_files", query |-> query, loaded |-> TRUE,
                          stored |-> stored, semantic |-> semantic, sim |-> sim,
                          embeddings |-> QaEmbeddingsDb(stored).embeddings,
                          files |-> retrieved.top_files,
                          symbol_hits |-> retrieved.symbol_hits,
                          confidence |-> retrieved.confidence]
          /\ UNCHANGED <<disk, clock, wr, rd, sessions, qa, watch>>

\* the queries: a rare keyword, a keyword of every file, two keywords, a symbol
\* name, and words the projects do not hold
Queries == {<<"alpha">>, <<"beta">>, <<"alpha", "beta">>, <<"f">>, <<"gamma", "the">>}
\* the questions: one about a keyword, one that holds no word of the projects
Questions == {<<"alpha">>, <<"gamma", "the">>}
\* every stored vector as far from, or as near to, the query
SimChoices == {[v \in EmbVectors |-> s] : s \in SimScores}

NextQA ==
    \/ \E X \in {IndexA, IndexAB} : SaveIndex(RootApp1, X, SaveTime)
    \/ SaveEmbeddings(RootApp1, EmbA)
    \/ DeleteProject(RootApp1)
    \/ \E q \in Questions, sid \in {"", "s1"} :
          \/ AnswerBegin(q, sid, <<>>, FALSE, CHOOSE sim \in SimChoices : TRUE)
          \/ \E sim \in SimChoices : AnswerBegin(q, sid, <<>>, TRUE, sim)
    \/ LlmAnswers("answer-1")
    \/ LlmFails
    \/ \E q \in Queries :
          \/ FindRelevantFiles(q, <<>>, FALSE, CHOOSE sim \in SimChoices : TRUE)
          \/ \E sim \in SimChoices : FindRelevantFiles(q, <<>>, TRUE, sim)

SpecQA == Init /\ [][NextQA]_vars

----------------------------------------------------------------------------
(* Index, then query: a project of two files under src/ *)

\* def authenticate(user, password): pass
MainPy == TextContent(<<<<"def", "authenticate", "user", "password">>, <<"pass">>>>)
\* the same with a body that names the topic
MainPyDoc ==
    TextContent(<<<<"def", "authenticate", "user", "password">>,
                  <<"authentication", "check">>>>)
\* def helper(): pass
UtilPy == TextContent(<<<<"def", "helper">>, <<"pass">>>>)

\* "how does authentication work?": its words without the punctuation, which
\* query.lower().split() keeps ("work?") and the pattern of extract_keywords
\* drops; neither form is a word of the project
E2EQuery == <<"how", "does", "authentication", "work">>

\* the embedding of the one chunk of src/main.py
EmbMain == <<[rel_path |-> "src/main.py", chunk_index |-> 0, vector |-> "v-a0"]>>

\* a file is created under the root, in a directory that may be new
CreateFile(r, f, content) ==
    /\ wr.pc = "idle"
    /\ rd.pc = "idle"
    /\ IsDir(disk[r])
    /\ disk' = [disk EXCEPT ![r] = (f :> File(content, clock)) @@ @]
    /\ ret' = [op |-> "disk"]
    /\ UNCHANGED <<store, dbOrder, clock, wr, rd, sessions, qa, watch>>

NextE2E ==
    \/ \E c \in {MainPy, MainPyDoc} : CreateFile(RootAB, "src/main.py", c)
    \/ CreateFile(RootAB, "src/util.py", UtilPy)
    \/ IndexProject(RootAB)
    \/ SaveEmbeddings(RootAB, EmbMain)
    \/ FindRelevantFiles(E2EQuery, <<>>, FALSE, CHOOSE sim \in SimChoices : TRUE)
    \/ \E sim \in SimChoices : FindRelevantFiles(E2EQuery, <<>>, TRUE, sim)
    \/ Tick

SpecE2E == Init /\ [][NextE2E]_vars

----------------------------------------------------------------------------
(* The watcher: watcher.py lines 11-79.  A path is the list of its parts; *)
(* watchfiles is installed.                                               *)

SUPPORTED_EXTENSIONS ==
    {".py", ".js", ".ts", ".jsx", ".tsx", ".go", ".rs", ".java", ".cpp", ".c",
     ".rb", ".php", ".cs", ".swift", ".html", ".css", ".scss",
     ".json", ".yaml", ".yml", ".toml", ".env.example", ".md", ".txt", ".sh"}

IGNORED_DIRS ==
    {".git", "node_modules", "__pycache__", ".venv", "venv", "env", ".env",
     ".pytest_cache", ".mypy_cache", "dist", "build", ".next", ".nuxt", "coverage",
     ".turbo", "target", ".gradle", "out", "classes", "bin", "obj", ".vs", "packages",
     "vendor", ".bundle", "tmp", "temp", "logs", ".cache"}

\* Path(name).suffix of the file names of the model: the part from the last
\* dot, empty for a name without a dot or with only a leading dot
Suffix(name) ==
    CASE name \in {"a.py", "c.py", "b.py", "tmp.py"} -> ".py"
      [] name = "notes.bin" -> ".bin"
      [] name = "readme.md" -> ".md"
      [] name = "conf.env.example" -> ".example"
      [] OTHER -> ""

Last(s) == s[Len(s)]

\* Path.resolve() of a path given by its parts
ResolveParts(p) == SelectSeq(p, LAMBDA part : part \notin {".", ""})

\* lines 44-51: some changed path has no ignored part and a supported suffix
Relevant(changes) ==
    \E p \in changes :
       /\ ~(\E i \in DOMAIN p : p[i] \in IGNORED_DIRS)
       /\ Suffix(Last(p)) \in SUPPORTED_EXTENSIONS

WatcherIds(w) == {e.id : e \in w.active}

\* lines 25-64: the registry and the loops after start_watching, the id
\* returned, and whether a loop was created; the stop event of loop n is n
start_watching(w, watcher_id, project_path) ==
    IF watcher_id \in WatcherIds(w)
    THEN [watch |-> w, val |-> watcher_id, started |-> FALSE]
    ELSE [watch |->
             [active |-> w.active \cup {[id |-> watcher_id, event |-> Len(w.loops) + 1]},
              loops |-> Append(w.loops,
                               [root |-> watcher_id, project_path |-> project_path,
                                stop |-> FALSE, pc |-> "running", last |-> "none"])],
          val |-> watcher_id, started |-> TRUE]

\* lines 67-74
stop_watching(w, watcher_id) ==
    IF watcher_id \in WatcherIds(w)
    THEN LET e == CHOOSE x \in w.active : x.id = watcher_id
         IN [watch |-> [active |-> w.active \ {e},
                        loops |-> [w.loops EXCEPT ![e.event].stop = TRUE]],
             val |-> TRUE]
    ELSE [watch |-> w, val |-> FALSE]

\* lines 58-61: the loop ends and pops the entry of its watcher id; of a loop
\* that ended only the root is kept
LoopEnd(w, n) ==
    [active |-> {e \in w.active : e.id # w.loops[n].root},
     loops |-> [w.loops EXCEPT ![n] = [root |-> @.root, project_path |-> @.root,
                                       stop |-> TRUE, pc |-> "done", last |-> "none"]]]

\* lines 54-57 with the exception of the callback ending the loop
OnCallbackErrorEnds(w, n) == LoopEnd(w, n)
\* lines 56-57: "except Exception: pass"
OnCallbackError(w, n) == w

\* the loops a run creates
MaxLoops == 3

WatchFrame == UNCHANGED <<store, dbOrder, disk, clock, wr, rd, sessions, qa>>

StartWatching(project_path) ==
    LET r == start_watching(watch, ResolveParts(project_path), project_path)
    IN /\ Len(r.watch.loops) <= MaxLoops
       /\ watch' = r.watch
       /\ ret' = [op |-> "start_watching", project_path |-> project_path,
                  val |-> r.val, started |-> r.started]
       /\ WatchFrame

StopWatching(project_path) ==
    LET r == stop_watching(watch, ResolveParts(project_path))
    IN /\ watch' = r.watch
       /\ ret' = [op |-> "stop_watching", project_path |-> project_path, val |-> r.val]
       /\ WatchFrame

\* awatch returns because the stop event is set
LoopStops(n) ==
    /\ n \in DOMAIN watch.loops
    /\ watch.loops[n].pc = "running"
    /\ watch.loops[n].stop
    /\ watch' = LoopEnd(watch, n)
    /\ ret' = [op |-> "loop_end", loop |-> n, cause |-> "stop"]
    /\ WatchFrame

\* awatch raises (the watched directory is gone, no inotify watches are left)
LoopFails(n) ==
    /\ n \in DOMAIN watch.loops
    /\ watch.loops[n].pc = "running"
    /\ watch' = LoopEnd(watch, n)
    /\ ret' = [op |-> "loop_end", loop |-> n, cause |-> "exception"]
    /\ WatchFrame

\* lines 42-57: awatch yields a batch; the callback returns or raises
Batch(n, changes, outcome) ==
    /\ n \in DOMAIN watch.loops
    /\ watch.loops[n].pc = "running"
    /\ IF Relevant(changes)
       THEN LET called == [watch EXCEPT !.loops[n].last = outcome]
            IN /\ watch' = IF outcome = "raised" THEN OnCallbackError(called, n) ELSE called
               /\ ret' = [op |-> "batch", loop |-> n, root |-> watch.loops[n].root,
                          changes |-> changes, invoked |-> 1,
                          arg |-> watch.loops[n].project_path, outcome |-> outcome,
                          before |-> watch.loops[n].last]
       ELSE /\ outcome = "ok"
            /\ watch' = watch
            /\ ret' = [op |-> "batch", loop |-> n, root |-> watch.loops[n].root,
                       changes |-> changes, invoked |-> 0]
    /\ WatchFrame

HomeApp == <<"/", "home", "app">>
\* the same directory spelled /home/./app
HomeDotApp == <<"/", "home", ".", "app">>
TmpApp == <<"/", "tmp", "app">>
WatchPaths == {HomeApp, HomeDotApp, TmpApp}

\* the files under a watched root that change
ChangedFiles == {<<"a.py">>, <<"node_modules", "c.py">>}
Batches(root) == {{root \o f : f \in fs} : fs \in (SUBSET ChangedFiles) \ {{}}}

NextWatch ==
    \/ \E p \in WatchPaths : StartWatching(p)
    \/ \E p \in WatchPaths : StopWatching(p)
    \/ \E n \in 1..MaxLoops : LoopStops(n)
    \/ \E n \in 1..MaxLoops : LoopFails(n)
    \/ \E n \in 1..MaxLoops :
          /\ n \in DOMAIN watch.loops
          /\ \E changes \in Batches(watch.loops[n].root), outcome \in {"ok", "raised"} :
                Batch(n, changes, outcome)

SpecWatch == Init /\ [][NextWatch]_vars

----------------------------------------------------------------------------
(* The public indexer operations on a root that stops being a directory *)

\* rm -r of the root, or a file put in its place
RemoveRoot(r, what) ==
    /\ wr.pc = "idle"
    /\ rd.pc = "idle"
    /\ IsDir(disk[r])
    /\ disk' = [disk EXCEPT ![r] = what]
    /\ ret' = [op |-> "disk"]
    /\ UNCHANGED <<store, dbOrder, clock, wr, rd, sessions, qa, watch>>

\* mkdir of the root
MakeRoot(r) ==
    /\ wr.pc = "idle"
    /\ rd.pc = "idle"
    /\ ~IsDir(disk[r])
    /\ disk' = [disk EXCEPT ![r] = [f \in FilesOnDisk |-> NoFile]]
    /\ ret' = [op |-> "disk"]
    /\ UNCHANGED <<store, dbOrder, clock, wr, rd, sessions, qa, watch>>

\* indexer.py lines 198-224
WatchProject(project_path) ==
    LET r == start_watching(watch, Resolve(project_path), Resolve(project_path))
    IN /\ Len(r.watch.loops) <= MaxLoops
       /\ IF ~IsDir(disk[Resolve(project_path)])
          THEN /\ ret' = [op |-> "watch_project", project_path |-> project_path,
                          watching |-> FALSE, error |-> "Not a directory", raised |-> FALSE]
               /\ watch' = watch
          ELSE /\ ret' = [op |-> "watch_project", project_path |-> Resolve(project_path),
                          watching |-> r.val # <<>>, active_watchers |-> WatcherIds(r.watch),
                          raised |-> FALSE]
               /\ watch' = r.watch
       /\ UNCHANGED <<store, dbOrder, disk, clock, wr, rd, sessions, qa>>

\* indexer.py lines 228-245
UnwatchProject(project_path) ==
    LET r == stop_watching(watch, Resolve(project_path))
    IN /\ watch' = r.watch
       /\ ret' = [op |-> "unwatch_project", project_path |-> project_path,
                  stopped |-> r.val, active_watchers |-> WatcherIds(r.watch),
                  raised |-> FALSE]
       /\ UNCHANGED <<store, dbOrder, disk, clock, wr, rd, sessions, qa>>

\* indexer.py lines 276-297: delete_project of the store, then stop_watching
\* with the identifier as the path
IndexerDeleteProject(project_identifier) ==
    LET matches == {p \in DOMAIN store : DeleteMatches(store[p], project_identifier)}
        r == stop_watching(watch, Resolve(project_identifier))
    IN /\ wr.pc = "idle"
       /\ rd.pc = "idle"
       /\ IF matches = {}
          THEN /\ ret' = [op |-> "indexer_delete_project", arg |-> project_identifier,
                          deleted |-> FALSE, raised |-> FALSE]
               /\ UNCHANGED <<store, dbOrder, watch>>
          ELSE \E p \in matches :
                /\ store' = [store EXCEPT ![p] = NoDb]
                /\ dbOrder' = Unlinked(dbOrder, p)
                /\ watch' = r.watch
                /\ ret' = [op |-> "indexer_delete_project", arg |-> project_identifier,
                           deleted |-> TRUE, raised |-> FALSE,
                           project_root |-> IF "project_root" \in DOMAIN store[p].meta
                                            THEN store[p].meta["project_root"]
                                            ELSE <<>>]
       /\ UNCHANGED <<disk, clock, wr, rd, sessions, qa>>

NextRoot ==
    \/ IndexProject(RootAB)
    \/ UpdateIndex(RootAB)
    \/ WriteFile(RootAB, "a.py", CodeA)
    \/ \E what \in {MissingRoot, FileAtRoot} : RemoveRoot(RootAB, what)
    \/ MakeRoot(RootAB)
    \/ WatchProject(RootAB)
    \/ UnwatchProject(RootAB)
    \/ \E i \in {RootAB, _make_slug(RootAB)} : IndexerDeleteProject(i)
    \/ \E n \in 1..MaxLoops : LoopStops(n)
    \/ \E n \in 1..MaxLoops : LoopFails(n)
    \/ Tick

SpecRoot == Init /\ [][NextRoot]_vars

----------------------------------------------------------------------------
(* Builds over files that cannot be used: unreadable, binary and blank ones *)

\* a file turns good or bad in place
BadContentsOf(f) == IF f = "a.py" THEN {CodeA, BlankText, UnreadableContent}
                    ELSE {CodeB, BinaryContent}

NextBad ==
    \/ IndexProject(RootAB)
    \/ UpdateIndex(RootAB)
    \/ \E f \in FilesOnDisk : \E c \in BadContentsOf(f) : WriteFile(RootAB, f, c)
    \/ Tick

SpecBad == Init /\ [][NextBad]_vars

----------------------------------------------------------------------------
(* scan_directory over a directory tree with symlinks, special files,      *)
(* ignored directories and sizes at the limits                              *)

MAX_INDEXABLE_SIZE == 1000000

\* A tree maps each path under the root (the list of its names) to what lies
\* there.  A symlink names what it points to and whether that is outside the
\* root; paths below a symlinked directory are the paths seen through it.  A
\* directory is open when the process may list it; the root is the path <<>>.
Reg(size) == [kind |-> "file", size |-> size, mtime |-> 0]
Fifo == [kind |-> "fifo", size |-> 0, mtime |-> 0]
Dir(open) == [kind |-> "dir", open |-> open]
SymToFile(outside) == [kind |-> "symlink", to |-> "file", outside |-> outside, size |-> 1, mtime |-> 0]
SymDangling == [kind |-> "symlink", to |-> "nothing", outside |-> FALSE]
SymToDir(outside) == [kind |-> "symlink", to |-> "dir", outside |-> outside]

\* the characters of the names, in the order of their code points
CodePoints == <<".", "/", "a", "b", "c", "d", "e", "i", "l", "m", "n", "o", "p", "r", "s",
                "t", "u", "x", "y">>

Spell(name) ==
    CASE name = "tmp.py" -> <<"t", "m", "p", ".", "p", "y">>
      [] name = "a.py" -> <<"a", ".", "p", "y">>
      [] name = "b.py" -> <<"b", ".", "p", "y">>
      [] name = "notes.bin" -> <<"n", "o", "t", "e", "s", ".", "b", "i", "n">>
      [] name = "conf.env.example" ->
            <<"c", "o", "n", "f", ".", "e", "n", "v", ".", "e", "x", "a", "m", "p", "l", "e">>
      [] name = "src" -> <<"s", "r", "c">>
      [] name = "build" -> <<"b", "u", "i", "l", "d">>
      [] name = "tmp" -> <<"t", "m", "p">>

RECURSIVE RelStr(_)
\* str(file_path.relative_to(root)): the names joined by "/"
RelStr(p) ==
    IF Len(p) = 1 THEN Spell(p[1]) ELSE Spell(p[1]) \o <<"/">> \o RelStr(Tail(p))

RECURSIVE StrLess(_, _)
\* s < t for Python strings: by code point, a proper prefix first
StrLess(s, t) ==
    IF t = <<>> THEN FALSE
    ELSE IF s = <<>> THEN TRUE
    ELSE IF Head(s) # Head(t) THEN IndexOf(Head(s), CodePoints) < IndexOf(Head(t), CodePoints)
    ELSE StrLess(Tail(s), Tail(t))

\* the names under the directory dirpath, in the order the listing gives them;
\* os.walk ignores the error of a directory it may not list (onerror is None)
Listing(fs, dirpath, ord) ==
    IF fs[dirpath].kind = "dir" => fs[dirpath].open
    THEN SelectSeq(ord, LAMBDA n : (dirpath \o <<n>>) \in DOMAIN fs)
    ELSE <<>>

\* os.walk: an entry is a directory name when it is a directory or a symlink to
\* one, else a file name
IsDirName(e) == e.kind = "dir" \/ (e.kind = "symlink" /\ e.to = "dir")

\* lines 51-57: the resolved path stays under the resolved root
_is_safe_path(fs, p) ==
    \A i \in 1..Len(p) :
        LET e == fs[SubSeq(p, 1, i)]
        IN e.kind = "symlink" => ~e.outside

\* lines 86-116: the checks a file name passes, one after the other
KeepsFile(fs, p) ==
    LET e == fs[p]
    IN IF e.kind = "symlink" THEN FALSE
       ELSE IF Suffix(Last(p)) \notin SUPPORTED_EXTENSIONS THEN FALSE
       ELSE IF e.kind # "file" THEN FALSE
       ELSE IF e.size > MAX_INDEXABLE_SIZE THEN FALSE
       ELSE IF e.size = 0 THEN FALSE
       ELSE _is_safe_path(fs, p)

FileMeta(fs, p) ==
    [relative_path |-> RelStr(p), extension |-> Suffix(Last(p)),
     size_bytes |-> fs[p].size, last_modified |-> fs[p].mtime]

\* lines 81-85: dirnames[:] keeps the directories os.walk descends into
DescendsAlways(fs, dirpath, d) == TRUE
Descends(fs, dirpath, d) ==
    d \notin IGNORED_DIRS /\ fs[dirpath \o <<d>>].kind # "symlink"

RECURSIVE WalkDirs(_, _, _, _)
RECURSIVE Walk(_, _, _)
\* lines 79-124: the entries appended for dirpath and, top down, for the
\* directories kept under it
Walk(fs, dirpath, ord) ==
    LET names == Listing(fs, dirpath, ord)
        dirnames == SelectSeq(names, LAMBDA n : IsDirName(fs[dirpath \o <<n>>]))
        filenames == SelectSeq(names, LAMBDA n : ~IsDirName(fs[dirpath \o <<n>>]))
        kept == SelectSeq(dirnames, LAMBDA d : Descends(fs, dirpath, d))
        here == SelectSeq(filenames, LAMBDA n : KeepsFile(fs, dirpath \o <<n>>))
    IN [i \in 1..Len(here) |-> FileMeta(fs, dirpath \o <<here[i]>>)]
         \o WalkDirs(fs, dirpath, kept, ord)

WalkDirs(fs, dirpath, dirs, ord) ==
    IF dirs = <<>> THEN <<>>
    ELSE Walk(fs, dirpath \o <<Head(dirs)>>, ord) \o WalkDirs(fs, dirpath, Tail(dirs), ord)

RECURSIVE SortByRelativePath(_)
\* sorted(files, key=lambda f: f["relative_path"]); the sort is stable
SortByRelativePath(files) ==
    IF files = <<>> THEN <<>>
    ELSE LET rest == SortByRelativePath(SubSeq(files, 1, Len(files) - 1))
             x == files[Len(files)]
             before == SelectSeq(rest, LAMBDA y : ~StrLess(x.relative_path, y.relative_path))
             after == SelectSeq(rest, LAMBDA y : StrLess(x.relative_path, y.relative_path))
         IN before \o <<x>> \o after

\* scanner.py lines 60-126 for a root that is a directory.  In a tree that
\* does not change during the walk stat() succeeds on every name listed
\* (lines 96-100 are for a file deleted in between).
ScanTree(fs, ord) == SortByRelativePath(Walk(fs, <<>>, ord))

\* the trees of the model: tmp.py at the root in every kind and size, a file
\* with an unsupported suffix, src as a directory (open or not) or a symlink
\* to one, files under src, under src/tmp and under build
TopFileKinds ==
    {Reg(0), Reg(1), Reg(MAX_INDEXABLE_SIZE), Reg(MAX_INDEXABLE_SIZE + 1), Fifo,
     SymToFile(FALSE), SymToFile(TRUE), SymDangling}
SrcKinds == {Dir(TRUE), Dir(FALSE), SymToDir(FALSE), SymToDir(TRUE)}

Optional(p, kinds) == {<<>>} \cup {p :> k : k \in kinds}

Trees ==
    {root @@ top @@ other @@ src @@ build :
        root \in {<<>> :> Dir(TRUE), <<>> :> Dir(FALSE)},
        top \in Optional(<<"tmp.py">>, TopFileKinds),
        other \in {<<>>, <<"notes.bin">> :> Reg(1), <<"conf.env.example">> :> Reg(1)},
        src \in {<<>>} \cup
                {(<<"src">> :> k) @@ a @@ t :
                    k \in SrcKinds,
                    a \in Optional(<<"src", "a.py">>, {Reg(1)}),
                    t \in {<<>>, (<<"src", "tmp">> :> Dir(TRUE)) @@ (<<"src", "tmp", "b.py">> :> Reg(1))}},
        build \in {<<>>, (<<"build">> :> Dir(TRUE)) @@ (<<"build", "a.py">> :> Reg(1))}}

\* the orders in which a directory listing gives the names
ListingOrders ==
    {<<"a.py", "b.py", "build", "conf.env.example", "notes.bin", "src", "tmp", "tmp.py">>,
     <<"tmp.py", "tmp", "src", "notes.bin", "conf.env.example", "build", "b.py", "a.py">>}

ScanRoot == <<"/", "s">>

InitScan ==
    /\ InitStore
    /\ clock = 0
    /\ \E fs \in Trees : disk = (ScanRoot :> fs)

ScanDirectory(ord) ==
    /\ ret' = [op |-> "scan_directory", val |-> ScanTree(disk[ScanRoot], ord), order |-> ord]
    /\ UNCHANGED <<store, dbOrder, disk, clock, wr, rd, sessions, qa, watch>>

NextScan == \E ord \in ListingOrders : ScanDirectory(ord)

SpecScan == InitScan /\ [][NextScan]_vars

----------------------------------------------------------------------------
(* chunk_file over contents and symbol lists, and the chunk rows save_index *)
(* writes for them                                                          *)

\* a content of n lines
LinesOf(n) == [i \in 1..n |-> <<"x">>]

\* none, one line, a few lines, and more lines than a chunk may span
LineCounts == {0, 1, 3, MAX_CHUNK_LINES + 2}

\* the symbols an extractor reports: tree-sitter reports two for a line that
\* holds two definitions (class A { A() {} })
SymbolAt(name, line) == [name |-> name, type |-> "function", line |-> line]

\* symbol lists of up to two symbols, in any order, with lines inside the file
SymbolLists(n) ==
    LET syms == {SymbolAt(name, line) : name \in {"f", "g"}, line \in {1, 2, 3, n} \cap (1..n)}
    IN {<<>>} \cup {<<s>> : s \in syms} \cup {p \in syms \X syms : p[1] # p[2]}

InitChunk ==
    /\ store = [p \in DbPaths |-> NoDb]
    /\ dbOrder = <<>>
    /\ wr = Idle
    /\ rd = Idle
    /\ sessions = {}
    /\ qa = Idle
    /\ watch = NoWatchers
    /\ disk = [r \in Roots |-> [f \in FilesOnDisk |-> NoFile]]
    /\ clock = 0
    /\ \E n \in LineCounts : \E symbols \in SymbolLists(n) :
          ret = [op |-> "input", lines |-> LinesOf(n), symbols |-> symbols]

\* chunk_file(content, symbols) and the rows of lines 132-138 of save_index
ChunkFile ==
    /\ ret.op = "input"
    /\ ret' = [op |-> "chunk_file", lines |-> ret.lines, symbols |-> ret.symbols,
               val |-> chunk_file(ret.lines, ret.symbols),
               rows |-> ChunkRows("a.py", [chunks |-> chunk_file(ret.lines, ret.symbols)])]
    /\ UNCHANGED <<store, dbOrder, disk, clock, wr, rd, sessions, qa, watch>>

NextChunk == ChunkFile

SpecChunk == InitChunk /\ [][NextChunk]_vars

----------------------------------------------------------------------------
(* Ranking in _retrieve_context over indexes of six files                   *)

RankFiles == <<"f1.py", "f2.py", "f3.py", "f4.py", "f5.py", "f6.py">>

RankQuery == <<"alpha", "beta", "foo">>

\* alpha maps to the first i files, beta to the last j files and the symbol
\* foo is defined in the files of S
RankIndex(i, j, S) ==
    LET n == Len(RankFiles)
        sfiles == SelectSeq(RankFiles, LAMBDA f : f \in S)
    IN Index([f \in Range(RankFiles) |-> [chunks |-> <<>>]],
             (IF i = 0 THEN EmptyDict ELSE ("alpha" :> SubSeq(RankFiles, 1, i)))
                @@ (IF j = 0 THEN EmptyDict ELSE ("beta" :> SubSeq(RankFiles, n - j + 1, n))),
             IF S = {} THEN EmptyDict
             ELSE ("foo" :> [k \in 1..Len(sfiles) |-> Loc(sfiles[k], 1, "function")]))

SymbolFileSets == {{}, {"f1.py"}, {"f6.py"}, {"f2.py", "f5.py"}, Range(RankFiles)}

InitRank ==
    /\ store = [p \in DbPaths |-> NoDb]
    /\ dbOrder = <<>>
    /\ wr = Idle
    /\ rd = Idle
    /\ sessions = {}
    /\ qa = Idle
    /\ watch = NoWatchers
    /\ disk = [r \in Roots |-> [f \in FilesOnDisk |-> NoFile]]
    /\ clock = 0
    /\ \E i \in 0..Len(RankFiles), j \in 0..Len(RankFiles), S \in SymbolFileSets :
          ret = [op |-> "input", idx |-> RankIndex(i, j, S)]

\* _retrieve_context(query, file_index, keyword_map, symbol_map) without
\* embeddings
Retrieve(query) ==
    /\ ret.op = "input"
    /\ ret' = [op |-> "retrieve", idx |-> ret.idx, query |-> query,
               val |-> _retrieve_context(query, ret.idx, FALSE, NoDb, EmptyDict)]
    /\ UNCHANGED <<store, dbOrder, disk, clock, wr, rd, sessions, qa, watch>>

NextRank == \E query \in {RankQuery, <<"alpha">>} : Retrieve(query)

SpecRank == InitRank /\ [][NextRank]_vars

----------------------------------------------------------------------------
(* Context assembly in _retrieve_context: qa.py lines 76-96                 *)

MAX_CONTEXT_CHARS == 24000

\* a chunk of the index with len(part) of the part built from it (header line
\* and content, lines 87-90)
PartOf(part_len) == [part_len |-> part_len]

RECURSIVE PackChunks(_, _, _, _)
\* lines 85-94: the chunks of one file, until one would overflow the budget
PackChunks(file_path, chunks, k, acc) ==
    IF k > Len(chunks) THEN acc
    ELSE IF acc.chars_used + chunks[k].part_len > MAX_CONTEXT_CHARS THEN acc
    ELSE PackChunks(file_path, chunks, k + 1,
                    [parts |-> Append(acc.parts, [file |-> file_path, chunk |-> k]),
                     chars_used |-> acc.chars_used + chunks[k].part_len])

RECURSIVE PackFiles(_, _, _)
\* lines 80-96: the top files in rank order, until the budget is used up
PackFiles(top_files, file_index, acc) ==
    IF top_files = <<>> THEN acc
    ELSE LET file_path == Head(top_files)
             chunks == IF file_path \in DOMAIN file_index THEN file_index[file_path].chunks
                       ELSE <<>>
             packed == PackChunks(file_path, chunks, 1, acc)
         IN IF chunks = <<>> THEN PackFiles(Tail(top_files), file_index, acc)
            ELSE IF packed.chars_used >= MAX_CONTEXT_CHARS THEN packed
            ELSE PackFiles(Tail(top_files), file_index, packed)

\* lines 78-96: context_parts and chars_used before the symbol hints
PackContext(top_files, file_index) ==
    PackFiles(top_files, file_index, [parts |-> <<>>, chars_used |-> 0])

\* the lengths of the parts: two that fill the budget exactly together, the
\* budget itself and one character more
PartLens == {10000, 14000, MAX_CONTEXT_CHARS, MAX_CONTEXT_CHARS + 1}

ChunkLists ==
    {<<>>} \cup {<<PartOf(a)>> : a \in PartLens}
           \cup {<<PartOf(a), PartOf(b)>> : a \in PartLens, b \in PartLens}

PackTopFiles == <<"f1.py", "f2.py">>

InitPack ==
    /\ store = [p \in DbPaths |-> NoDb]
    /\ dbOrder = <<>>
    /\ wr = Idle
    /\ rd = Idle
    /\ sessions = {}
    /\ qa = Idle
    /\ watch = NoWatchers
    /\ disk = [r \in Roots |-> [f \in FilesOnDisk |-> NoFile]]
    /\ clock = 0
    /\ \E c1 \in ChunkLists, c2 \in ChunkLists :
          ret = [op |-> "input",
                 file_index |-> ("f1.py" :> [chunks |-> c1]) @@ ("f2.py" :> [chunks |-> c2])]

Pack ==
    /\ ret.op = "input"
    /\ ret' = [op |-> "pack", file_index |-> ret.file_index, top_files |-> PackTopFiles,
               val |-> PackContext(PackTopFiles, ret.file_index)]
    /\ UNCHANGED <<store, dbOrder, disk, clock, wr, rd, sessions, qa, watch>>

NextPack == Pack

SpecPack == InitPack /\ [][NextPack]_vars

----------------------------------------------------------------------------
(* answer_question in a session that has up to three earlier turns *)

\* answer_question for session s1 after the turns SaveSessionTurn stored
AskInSession(question, session_id) ==
    /\ Cardinality(SessionRows(sessions, session_id)) <= MaxTurns
    /\ AnswerQuestion(question, session_id, <<>>, FALSE, CHOOSE sim \in SimChoices : TRUE)

NextEnrich ==
    \/ SaveIndex(RootApp1, IndexAB, SaveTime)
    \/ \E x \in Exchanges : SaveSessionTurn("s1", x.question, x.answer, x.relevant_files)
    \/ \E q \in Questions, sid \in {"", "s1"} : AskInSession(q, sid)
    \/ LlmAnswers("answer-1")
    \/ LlmFails

SpecEnrich == Init /\ [][NextEnrich]_vars

----------------------------------------------------------------------------
(* index_project and update_index with sentence-transformers installed *)

AllVectors == {VectorNames[f][i] : f \in DOMAIN VectorNames, i \in 1..3}
\* the embedding model raises for the query; the scores are those the loop of
\* lines 65-67 would have met
EmbedRaises == [v \in AllVectors \cup {"raises"} |-> 600]
EmbSims == {[v \in AllVectors |-> s] : s \in SimScores} \cup {EmbedRaises}

NextEmb ==
    \/ \E emb \in EmbOutcomes \ {"unavailable"} : IndexProjectWith(RootAB, emb)
    \/ UpdateIndex(RootAB)
    \/ \E f \in FilesOnDisk : \E c \in {CodeA, CodeB} : WriteFile(RootAB, f, c)
    \/ MoveFileIn(RootAB, "b.py", CodeA, clock + 1)
    \/ \E sim \in EmbSims : FindRelevantFiles(<<"alpha">>, RootAB, TRUE, sim)

SpecEmb == Init /\ [][NextEmb]_vars

----------------------------------------------------------------------------
(* index_project in two steps, with the files changing in between *)

\* indexer.py lines 46-98: the scan and the loop that reads and extracts every
\* file; the index is held in memory until save_index
IndexRead(r) ==
    LET files == scan_directory(disk[Resolve(r)])
    IN /\ wr.pc = "idle"
       /\ rd.pc = "idle"
       /\ IsDir(disk[Resolve(r)])
       /\ files # <<>>
       /\ wr' = [pc |-> "extracted", root |-> r,
                 index |-> BuildIndex(files, disk[Resolve(r)], EmptyIndex)]
       /\ ret' = [op |-> "index_read", root |-> r]
       /\ UNCHANGED <<store, dbOrder, disk, clock, rd, sessions, qa, watch>>

\* lines 99-119: indexed_at = time.time() and save_index.  The clock moves on,
\* so every later write to a file has a greater modification time.
IndexSave ==
    LET r == wr.root
        p == _project_db_path(r)
        saved == SaveIndexDb(store[p], wr.index, r, clock)
    IN /\ wr.pc = "extracted"
       /\ clock < MaxClock
       /\ clock' = clock + 1
       /\ wr' = Idle
       /\ IF ~CanOpen(store[p])
          THEN /\ ret' = [op |-> "index_project", root |-> r, ok |-> FALSE,
                          files_indexed |-> 0, saved |-> FALSE, raised |-> TRUE]
               /\ UNCHANGED <<store, dbOrder>>
          ELSE /\ store' = [store EXCEPT ![p] = saved.db]
               /\ dbOrder' = IF saved.ok \/ ~store[p].exists THEN Touch(dbOrder, p)
                             ELSE dbOrder
               /\ ret' = [op |-> "index_project", root |-> r, ok |-> saved.ok,
                          files_indexed |-> Cardinality(DOMAIN wr.index.file_index),
                          saved |-> saved.ok, raised |-> ~saved.ok, index |-> wr.index]
       /\ UNCHANGED <<disk, rd, sessions, qa, watch>>

\* another process writes a file, also while index_project runs
ModifyFile(r, f, content) ==
    /\ IsDir(disk[r])
    /\ disk' = [disk EXCEPT ![r][f] = File(content, clock)]
    /\ ret' = [op |-> "disk"]
    /\ UNCHANGED <<store, dbOrder, clock, wr, rd, sessions, qa, watch>>

NextRun ==
    \/ IndexRead(RootAB)
    \/ IndexSave
    \/ UpdateIndex(RootAB)
    \/ \E f \in FilesOnDisk : \E c \in {CodeA, CodeB} : ModifyFile(RootAB, f, c)
    \/ Tick

SpecRun == Init /\ [][NextRun]_vars

----------------------------------------------------------------------------
(* save_session_turn statement by statement, on two connections *)

Callers == {1, 2}
NoCall == [pc |-> "idle"]

\* wr.calls[c] is the position of the call of caller c
InitTurns ==
    /\ store = [p \in DbPaths |-> NoDb]
    /\ dbOrder = <<>>
    /\ ret = [op |-> "start"]
    /\ wr = [pc |-> "idle", calls |-> [c \in Callers |-> NoCall]]
    /\ rd = Idle
    /\ sessions = {}
    /\ qa = Idle
    /\ watch = NoWatchers
    /\ disk = [r \in Roots |-> [f \in FilesOnDisk |-> NoFile]]
    /\ clock = 0

TurnFrame == UNCHANGED <<store, dbOrder, disk, clock, rd, qa, watch>>

\* storage.py lines 438-442: the SELECT of the highest turn index, outside any
\* transaction, sees the committed rows
TurnRead(c, session_id, x) ==
    /\ wr.calls[c].pc = "idle"
    /\ wr' = [wr EXCEPT !.calls[c] =
                 [pc |-> "read", session_id |-> session_id,
                  row |-> SessionRow(session_id, MaxTurnIndex(sessions, session_id) + 1,
                                     x.question, x.answer, x.relevant_files, clock)]]
    /\ ret' = [op |-> "turn_read", caller |-> c]
    /\ UNCHANGED sessions
    /\ TurnFrame

\* another connection holds the write lock of the database
Locked(c) == \E o \in Callers \ {c} : wr.calls[o].pc = "inserted"

\* lines 443-447: the INSERT opens the write transaction; a stored key raises
\* IntegrityError (PRIMARY KEY (id, turn_index)) and line 451 closes the
\* connection
TurnInsert(c) ==
    LET call == wr.calls[c]
    IN /\ call.pc = "read"
       /\ ~Locked(c)
       /\ IF \E r \in sessions : r.id = call.row.id /\ r.turn_index = call.row.turn_index
          THEN /\ wr' = [wr EXCEPT !.calls[c] =
                            [pc |-> "done", session_id |-> call.session_id, ok |-> FALSE,
                             error |-> "IntegrityError", row |-> call.row]]
               /\ ret' = [op |-> "save_session_turn", session_id |-> call.session_id,
                          ok |-> FALSE, caller |-> c]
          ELSE /\ wr' = [wr EXCEPT !.calls[c].pc = "inserted"]
               /\ ret' = [op |-> "turn_insert", caller |-> c]
       /\ UNCHANGED sessions
       /\ TurnFrame

\* lines 443-447 while the other connection holds the write lock until the busy
\* timeout ends: OperationalError, database is locked
TurnBusy(c) ==
    LET call == wr.calls[c]
    IN /\ call.pc = "read"
       /\ Locked(c)
       /\ wr' = [wr EXCEPT !.calls[c] =
                    [pc |-> "done", session_id |-> call.session_id, ok |-> FALSE,
                     error |-> "OperationalError", row |-> call.row]]
       /\ ret' = [op |-> "save_session_turn", session_id |-> call.session_id,
                  ok |-> FALSE, caller |-> c]
       /\ UNCHANGED sessions
       /\ TurnFrame

\* lines 448-449: commit and return the turn index
TurnCommit(c) ==
    LET call == wr.calls[c]
    IN /\ call.pc = "inserted"
       /\ sessions' = sessions \cup {call.row}
       /\ wr' = [wr EXCEPT !.calls[c] =
                    [pc |-> "done", session_id |-> call.session_id, ok |-> TRUE,
                     error |-> "", row |-> call.row]]
       /\ ret' = [op |-> "save_session_turn", session_id |-> call.session_id,
                  ok |-> TRUE, val |-> call.row.turn_index, caller |-> c]
       /\ TurnFrame

\* a turn stored before the two calls begin
EarlierTurn(session_id, x) ==
    /\ \A c \in Callers : wr.calls[c].pc = "idle"
    /\ Cardinality(SessionRows(sessions, session_id)) < MaxTurns - 1
    /\ sessions' = save_session_turn(sessions, session_id, x.question, x.answer,
                                     x.relevant_files, clock).table
    /\ ret' = [op |-> "save_session_turn", session_id |-> session_id, ok |-> TRUE,
               val |-> MaxTurnIndex(sessions, session_id) + 1]
    /\ UNCHANGED wr
    /\ TurnFrame

NextTurns ==
    \/ \E sid \in SessionIds, x \in Exchanges : EarlierTurn(sid, x)
    \/ \E c \in Callers, sid \in SessionIds, x \in Exchanges : TurnRead(c, sid, x)
    \/ \E c \in Callers : TurnInsert(c)
    \/ \E c \in Callers : TurnBusy(c)
    \/ \E c \in Callers : TurnCommit(c)

SpecTurns == InitTurns /\ [][NextTurns]_vars

----------------------------------------------------------------------------
(* Claims about the store *)

Edges(keyword_map) ==
    UNION {{<<k, keyword_map[k][i]>> : i \in DOMAIN keyword_map[k]} : k \in DOMAIN keyword_map}

Locations(symbol_map) ==
    UNION {{<<n, symbol_map[n][i]>> : i \in DOMAIN symbol_map[n]} : n \in DOMAIN symbol_map}

\* every keyword edge and every symbol location of X names a file of X
FKValid(X) ==
    /\ \A e \in Edges(X.keyword_map) : e[2] \in DOMAIN X.file_index
    /\ \A l \in Locations(X.symbol_map) : l[2].file \in DOMAIN X.file_index

\* the loaded index L is X saved for root P at time t, up to the order of rows
RoundTrip(X, P, t, L) ==
    /\ L.ok
    /\ L.project_root = P
    /\ L.indexed_at = t
    /\ DOMAIN L.file_index = DOMAIN X.file_index
    /\ \A f \in DOMAIN X.file_index :
        /\ L.file_index[f].keywords = X.file_index[f].keywords
        /\ L.file_index[f].chunks = X.file_index[f].chunks
    /\ Edges(L.keyword_map) = Edges(X.keyword_map)
    /\ Locations(L.symbol_map) = Locations(X.symbol_map)

\* C1: save_index(X, P, t) followed by load_index(P) returns X, for every X
\* whose keyword edges and symbol locations name files of file_index
C1_SaveLoadRoundTrip ==
    [][(/\ ret.op = "save_index"
        /\ ret.ok
        /\ FKValid(ret.X)
        /\ ret'.op = "load_index"
        /\ ret'.arg = ret.root)
       => RoundTrip(ret.X, ret.root, ret.t, ret'.val)]_vars

HandlesOf(r) == {r, _make_slug(r), _make_project_id(r)}

\* root r has been saved and not deleted
Stored(st, r) ==
    /\ st[_project_db_path(r)].exists
    /\ LoadFromDb(st[_project_db_path(r)]).ok
    /\ LoadFromDb(st[_project_db_path(r)]).project_root = r

\* C2: load_index by root path, slug or project id of a stored project
\* returns the index of that project, whatever else is stored
C2_LoadByAnyHandle ==
    \A r \in Roots :
        (ret.op = "load_index" /\ ret.arg \in HandlesOf(r) /\ Stored(store, r))
            => ret.val = LoadFromDb(store[_project_db_path(r)])

\* C2 amended: ... when no other stored project has a root path, slug or
\* project id equal to the identifier
C2_LoadByUnambiguousHandle ==
    \A r \in Roots :
        (/\ ret.op = "load_index"
         /\ ret.arg \in HandlesOf(r)
         /\ Stored(store, r)
         /\ \A p \in DOMAIN store \ {_project_db_path(r)} : ~DeleteMatches(store[p], ret.arg))
            => ret.val = LoadFromDb(store[_project_db_path(r)])

C2_Witness ==
    /\ ret.op = "load_index"
    /\ ret.arg = _make_slug(RootAB)
    /\ Stored(store, RootAB)
    /\ Stored(store, RootApp1)
    /\ Stored(store, RootApp2)
    /\ ret.val.ok
    /\ ret.val.project_root = RootAB

\* C3: load_index with a non-empty identifier that is no stored project's
\* root path, slug or project id returns None
C3_UnknownIdentifierAbsent ==
    (ret.op = "load_index" /\ ret.arg # <<>> /\ ~ret.known) => ret.val = Absent

Tables(db) ==
    IF db.exists
    THEN [meta |-> db.meta, files |-> db.files, chunks |-> db.chunks, symbols |-> db.symbols,
          keyword_files |-> db.keyword_files, embeddings |-> db.embeddings]
    ELSE [meta |-> <<>>, files |-> {}, chunks |-> {}, symbols |-> {},
          keyword_files |-> {}, embeddings |-> {}]

\* C4: a save_index that fails after BEGIN leaves every row of the project's
\* database as it was before the call
C4_FailedSaveKeepsRows ==
    [][(ret'.op = "save_index" /\ ret'.began /\ ~ret'.ok)
       => Tables(store'[_project_db_path(ret'.root)])
            = Tables(store[_project_db_path(ret'.root)])]_vars

C4_Witness ==
    /\ ret.op = "save_index"
    /\ ret.began
    /\ ~ret.ok
    /\ ret.X.file_index # EmptyDict
    /\ store[_project_db_path(ret.root)].files # {}
    /\ store[_project_db_path(ret.root)].symbols # {}

\* C6: load_index on a corrupt database returns None and the database file
\* is gone afterwards
C6_CorruptDbRemoved ==
    (ret.op = "load_index" /\ ret.corrupt)
        => (ret.val = Absent /\ \A p \in ret.db_path : ~store[p].exists)

----------------------------------------------------------------------------
(* Claims about the indexer *)

StoredIndex(db) ==
    [files |-> db.files, chunks |-> db.chunks, keyword_files |-> db.keyword_files,
     symbols |-> db.symbols]

\* the state after one update_index followed by another of the same root,
\* with no step on the disk in between
SecondUpdate ==
    /\ ret.op = "update_index"
    /\ ret.ok
    /\ ret'.op = "update_index"
    /\ ret'.root = ret.root
    /\ disk' = disk
    /\ clock' = clock

\* no file under the root carries a modification time later than the
\* indexed_at that the stored index has
NoFutureMtime(r) ==
    \A f \in FilesOnDisk :
        disk[r][f].exists =>
            disk[r][f].mtime <= ParseNum(store[_project_db_path(r)].meta["indexed_at"])

\* C7 (as stated): an update_index that follows an update_index of the same
\* root with no file created, modified or deleted in between reports no updated
\* and no deleted file and stores the files, keyword edges and symbol locations
\* that were stored
C7_UpdateIdempotent ==
    [][SecondUpdate
       => (/\ ret'.ok
           /\ ret'.files_updated = 0
           /\ ret'.files_deleted = 0
           /\ StoredIndex(store'[_project_db_path(ret.root)])
                = StoredIndex(store[_project_db_path(ret.root)]))]_vars

\* C7 (amended): the second update_index stores what was stored and reports no
\* deleted file; it reports no updated file when no file under the root has a
\* modification time later than the indexed_at the first run stored
C7_UpdateIdempotentUpToFutureMtime ==
    [][SecondUpdate
       => (/\ ret'.ok
           /\ ret'.files_deleted = 0
           /\ StoredIndex(store'[_project_db_path(ret.root)])
                = StoredIndex(store[_project_db_path(ret.root)])
           /\ NoFutureMtime(ret.root) => ret'.files_updated = 0)]_vars

C7_Witness ==
    /\ ret.op = "update_index"
    /\ ret.ok
    /\ ret.again
    /\ ret.files_updated = 0
    /\ Cardinality(store[_project_db_path(ret.root)].files) = 2
    /\ \E f \in store[_project_db_path(ret.root)].files :
          f.last_modified = ParseNum(store[_project_db_path(ret.root)].meta["indexed_at"])

ScannedPaths(dir) == {scan_directory(dir)[i].relative_path : i \in DOMAIN scan_directory(dir)}

NoTraceOf(db, f) ==
    /\ f \notin FileKeys(db)
    /\ \A c \in db.chunks : c.rel_path # f
    /\ \A k \in db.keyword_files : k.rel_path # f
    /\ \A y \in db.symbols : y.rel_path # f

\* C8: after update_index, an indexed file that was removed from disk has no
\* file entry, chunk, keyword edge or symbol location, it is listed in
\* deleted_files, and files_deleted counts the indexed files the scan misses
C8_DeletedFilePurged ==
    (ret.op = "update_index" /\ ret.ok) =>
        /\ \A f \in ret.prior_files :
              ~disk[ret.root][f].exists =>
                  (NoTraceOf(store[_project_db_path(ret.root)], f) /\ f \in ret.deleted_files)
        /\ ret.files_deleted =
              Cardinality(ret.prior_files \ ScannedPaths(disk[ret.root]))

C8_Witness ==
    /\ ret.op = "update_index"
    /\ ret.ok
    /\ ret.files_deleted = 1
    /\ ret.deleted_files = {"a.py"}
    /\ ~disk[ret.root]["a.py"].exists
    /\ [keyword |-> "alpha", rel_path |-> "b.py"]
          \in store[_project_db_path(ret.root)].keyword_files
    /\ store[_project_db_path(ret.root)].symbols # {}

\* scanned, readable, not binary and not blank
Indexable(file) ==
    /\ file.exists
    /\ SizeBytes(file.content) # 0
    /\ ~IsBlank(read_file(file))

\* C9: after update_index every scanned file that is readable, not binary and
\* not blank has an entry in the stored file index
C9_EveryIndexableFileHasEntry ==
    (ret.op = "update_index" /\ ret.ok) =>
        \A f \in FilesOnDisk :
            Indexable(disk[ret.root][f]) => f \in FileKeys(store[_project_db_path(ret.root)])

\* C10: in every stored index a keyword maps to a file if and only if the
\* keyword is in the keyword bag stored for that file
C10_KeywordEdgeIffInBag ==
    \A p \in DOMAIN store :
        (store[p].exists /\ store[p].readable) =>
            \A f \in FilesOnDisk, kw \in {"alpha", "beta", "gamma", "foo", "elf"} :
                ([keyword |-> kw, rel_path |-> f] \in store[p].keyword_files)
                    <=> (/\ f \in FileKeys(store[p])
                         /\ kw \in Range(JsonLoads(FileRowOf(store[p], f).keywords)))

C10_Witness ==
    /\ ret.op = "update_index"
    /\ ret.ok
    /\ ret.files_updated = 1
    /\ ret.files_deleted = 0
    /\ FileKeys(store[_project_db_path(ret.root)]) = {"a.py", "b.py"}
    /\ [keyword |-> "alpha", rel_path |-> "a.py"]
          \in store[_project_db_path(ret.root)].keyword_files
    /\ [keyword |-> "gamma", rel_path |-> "b.py"]
          \in store[_project_db_path(ret.root)].keyword_files

\* C5: a load_index during which one save_index on the same database
\* committed returns the index stored before that save or the index stored
\* after it
C5_LoadSeesOneSave ==
    (ret.op = "load_index" /\ Len(ret.snapshots) = 2) =>
        ret.val \in {LoadFromDb(ret.snapshots[1]), LoadFromDb(ret.snapshots[2])}

----------------------------------------------------------------------------
(* Claims about several projects *)

\* the step is a call of update_index
UpdateStep == ret'.op = "update_index" /\ clock' = clock /\ disk' = disk

\* C11: update_index for a root that has no stored index returns an error
\* with files_updated = 0 and leaves every stored index as it was
C11_UpdateWithoutIndexFails ==
    [][(UpdateStep /\ ~store[_project_db_path(ret'.root)].exists)
       => (~ret'.ok /\ ret'.files_updated = 0 /\ store' = store)]_vars

\* the relative paths of the file entries stored for root r
StoredFiles(st, r) ==
    IF st[_project_db_path(r)].exists /\ st[_project_db_path(r)].readable
    THEN FileKeys(st[_project_db_path(r)])
    ELSE {}

\* C12: after index_project returned without an error, the index stored for
\* the root holds exactly the scanned files that are readable, not binary and
\* not blank, and files_indexed is the number of stored file entries
C12_IndexProjectReplaces ==
    (ret.op = "index_project" /\ ret.ok) =>
        /\ StoredFiles(store, ret.root) = {f \in FilesOnDisk : Indexable(disk[ret.root][f])}
        /\ ret.files_indexed = Cardinality(StoredFiles(store, ret.root))

----------------------------------------------------------------------------
(* Claims about sessions *)

TurnIndices(table, session_id) == {r.turn_index : r \in SessionRows(table, session_id)}

\* the turn indices of every session id are 0..n-1, each stored once
DenseTurns(table) ==
    \A sid \in {r.id : r \in table} :
        /\ TurnIndices(table, sid) = 0..(Cardinality(TurnIndices(table, sid)) - 1)
        /\ Cardinality(SessionRows(table, sid)) = Cardinality(TurnIndices(table, sid))

\* C13: the turn indices stored for each session id are 0..n-1 without gap or
\* duplicate; save_session_turn returns the index it stored, which is the
\* number of turns the session had, and adds that one row and changes no other
C13_DenseTurnIndices ==
    /\ []DenseTurns(sessions)
    /\ [][ret'.op = "save_session_turn" =>
            /\ ret'.ok
            /\ ret'.val = Cardinality(SessionRows(sessions, ret'.session_id))
            /\ sessions \subseteq sessions'
            /\ \E r \in sessions' :
                  /\ sessions' \ sessions = {r}
                  /\ r.id = ret'.session_id
                  /\ r.turn_index = ret'.val]_<<sessions, ret>>

C13_Witness ==
    /\ ret.op = "save_session_turn"
    /\ ret.val = 2
    /\ ret.session_id = "s1"
    /\ Cardinality(SessionRows(sessions, "s2")) = 1

\* the turn of session_id stored with turn_index
TurnAt(table, session_id, turn_index) ==
    LET r == CHOOSE x \in SessionRows(table, session_id) : x.turn_index = turn_index
    IN [question |-> r.question, answer |-> r.answer,
        relevant_files |-> JsonLoads(r.relevant_files)]

\* C14: load_session(session_id, max_turns) returns the min(max_turns, n)
\* turns with the highest turn indices in increasing order of turn index, and
\* the empty list for a session id without turns
C14_LoadSessionLastTurns ==
    ret.op = "load_session" =>
        LET n == Cardinality(SessionRows(sessions, ret.session_id))
            k == Min(ret.max_turns, n)
        IN /\ Len(ret.val) = k
           /\ \A i \in 1..k :
                 ret.val[i] = TurnAt(sessions, ret.session_id, n - k + i - 1)

C14_Witness ==
    /\ ret.op = "load_session"
    /\ ret.max_turns = 2
    /\ Cardinality(SessionRows(sessions, ret.session_id)) = 3
    /\ Len(ret.val) = 2
    /\ ret.val[1] # ret.val[2]

----------------------------------------------------------------------------
(* Claims about the projects directory *)

\* the database holds a project whose root path, slug or project id is h
HasHandle(db, h) ==
    /\ db.exists
    /\ db.readable
    /\ \E k \in {"project_root", "slug", "project_id"} :
          k \in DOMAIN db.meta /\ db.meta[k] = h

\* what load_index(h) may return in the state (st, order)
LoadResults(st, order, h) ==
    {LoadFromDb(st[p]) : p \in LoadDbPaths(st, order, h)}

\* C15: delete_project(identifier) returns true iff a stored project has the
\* identifier as root path, slug or project id; then the database of one such
\* project is gone with its embeddings, list_projects and load_index by its
\* handles do not return it, and every other index is as it was; when it
\* returns false no index changes; the session turns never change
C15_DeleteProjectFrame ==
    [][ret'.op = "delete_project" =>
        /\ ret'.val <=> (\E p \in DOMAIN store : HasHandle(store[p], ret'.arg))
        /\ sessions' = sessions
        /\ ~ret'.val => store' = store
        /\ ret'.val =>
            \E p \in DOMAIN store :
                /\ HasHandle(store[p], ret'.arg)
                /\ store' = [store EXCEPT ![p] = NoDb]
                /\ \A e \in list_indexed_projects(store') :
                      e.project_root # store[p].meta["project_root"]
                /\ \A h \in HandlesOf(store[p].meta["project_root"]) :
                      \A L \in LoadResults(store', dbOrder', h) :
                          L.ok => L.project_root # store[p].meta["project_root"]]_vars

C15_Witness ==
    /\ ret.op = "delete_project"
    /\ ret.val
    /\ ret.arg = _make_slug(RootApp1)
    /\ Cardinality({p \in DOMAIN store : HasHandle(store[p], ret.arg)}) = 1
    /\ \E p \in DOMAIN store : store[p].exists /\ store[p].embeddings # {}
    /\ sessions # {}

\* the stored projects whose save_index is later than that of every other
\* stored project (indexed_at is the time of the call)
LastSaved(st) ==
    {r \in ProjectRoots :
        /\ Stored(st, r)
        /\ \A q \in ProjectRoots \ {r} :
              Stored(st, q) =>
                  LoadFromDb(st[_project_db_path(q)]).indexed_at
                      < LoadFromDb(st[_project_db_path(r)]).indexed_at}

\* C16: load_index with the empty identifier returns the index of the
\* project whose save_index was the last one among the stored projects, and
\* None when no project is stored
C16_EmptyIdentifierIsLastSaved ==
    (ret.op = "load_index" /\ ret.arg = <<>>) =>
        /\ (\A r \in ProjectRoots : ~store[_project_db_path(r)].exists) => ~ret.val.ok
        /\ \A r \in LastSaved(store) : ret.val = LoadFromDb(store[_project_db_path(r)])

\* C17: index_project and update_index for one root leave the stored index of
\* every project with another root as it was
C17_OtherProjectsUntouched ==
    [][ret'.op \in {"index_project", "update_index"} =>
        \A q \in MultiRoots \ {ret'.root} :
            store'[_project_db_path(q)] = store[_project_db_path(q)]]_vars

\* C18: two spellings of one directory address one stored project:
\* list_projects has one entry for that directory
C18_OneProjectPerDirectory ==
    \A e1, e2 \in list_indexed_projects(store) :
        Resolve(e1.project_root) = Resolve(e2.project_root) => e1 = e2

\* an index can be loaded for the empty identifier
LoadableNow == \E p \in LoadDbPaths(store, dbOrder, <<>>) : LoadFromDb(store[p]).ok

\* a return of answer_question that made no call of the language model
ReturnsEmpty ==
    /\ ret.relevant_files = <<>>
    /\ ret.confidence = "low"
    /\ ~ret.llm

\* the step appends to sessions one turn of the call that awaited the model
AppendsOneTurn ==
    \E row \in sessions' \ sessions :
       /\ sessions' = sessions \cup {row}
       /\ row.id = qa.session_id
       /\ row.id # ""
       /\ row.question = qa.question
       /\ row.answer = ret'.answer
       /\ row.turn_index = Cardinality(SessionRows(sessions, qa.session_id))

ModelAnswered == qa.pc = "awaiting_llm" /\ qa'.pc = "idle" /\ "answer" \in DOMAIN ret'

\* C19: answer_question awaits the language model only when an index was
\* loaded and retrieval returned at least one file; with the index absent or
\* no file retrieved it returns relevant_files = [] and confidence "low"
\* without a call of the model and without a session turn; a turn is appended
\* exactly once, in the step after the model answered, and only for a
\* non-empty session_id.
C19_ModelCalledOnlyWithFiles ==
    /\ [](/\ qa.pc = "awaiting_llm" => qa.loaded /\ qa.top_files # <<>>
          /\ (ret.op = "answer_question" /\ (~ret.loaded \/ ret.retrieved = <<>>))
                => ReturnsEmpty)
    /\ [][/\ (qa.pc = "idle" /\ qa'.pc = "awaiting_llm") => LoadableNow
          /\ sessions' # sessions => ModelAnswered /\ AppendsOneTurn
          /\ (ModelAnswered /\ qa.session_id # "") => AppendsOneTurn
          /\ (ModelAnswered /\ qa.session_id = "") => sessions' = sessions]_vars

\* the model answered a question of session s1 that holds no word of the
\* project, and its turn was appended as the second of the session
C19_Witness ==
    /\ ret.op = "answer_question"
    /\ ret.llm
    /\ "answer" \in DOMAIN ret
    /\ ret.session_id = "s1"
    /\ ret.question = <<"gamma", "the">>
    /\ Cardinality(SessionRows(sessions, "s1")) = 2

\* no word of the query is a keyword of a file of the index or a symbol name
NoLexicalOverlap(query, stored) ==
    \A w \in Range(query) :
       /\ w \notin DOMAIN stored.symbol_map
       /\ w \notin DOMAIN stored.keyword_map
       /\ \A f \in DOMAIN stored.file_index :
             w \notin Range(stored.file_index[f].keywords)
                 \cup Range(stored.file_index[f].symbols)

\* C20: for a query that shares no keyword with any file's keyword bag and no
\* word with any symbol name of the project, the retriever returns
\* top_files = [] and confidence "low", whether or not embeddings are stored.
C20_NoOverlapNoFiles ==
    (/\ ret.op = "find_relevant_files"
     /\ ret.loaded
     /\ NoLexicalOverlap(ret.query, ret.stored))
        => ret.files = <<>> /\ ret.confidence = "low"

\* retrieval for a query without lexical overlap names a file that only the
\* stored embeddings matched
C20_SemanticOnlyHit ==
    /\ ret.op = "find_relevant_files"
    /\ ret.loaded
    /\ NoLexicalOverlap(ret.query, ret.stored)
    /\ ret.semantic
    /\ ret.embeddings # {}
    /\ ret.files # <<>>

\* the root holds src/main.py with authenticate and src/util.py with helper
E2EProject(dir) ==
    /\ {"src/main.py", "src/util.py"} \subseteq DOMAIN dir
    /\ dir["src/main.py"].exists
    /\ dir["src/main.py"].content \in {MainPy, MainPyDoc}
    /\ dir["src/util.py"].exists
    /\ dir["src/util.py"].content = UtilPy

\* C21: for a root holding src/main.py that defines authenticate(user,
\* password) and src/util.py that defines helper(), index_project reports
\* files_indexed = 2, and the query "how does authentication work?" returns
\* src/main.py as the first file, confidence high or medium, and symbol_hits
\* containing authenticate.
C21_IndexThenQuery ==
    /\ (ret.op = "index_project" /\ E2EProject(disk[RootAB])) => ret.files_indexed = 2
    /\ (/\ ret.op = "find_relevant_files"
        /\ ret.query = E2EQuery
        /\ ret.loaded
        /\ DOMAIN ret.stored.file_index = {"src/main.py", "src/util.py"})
          => /\ IF ret.files = <<>> THEN FALSE ELSE ret.files[1] = "src/main.py"
             /\ ret.confidence \in {"high", "medium"}
             /\ "authenticate" \in Range(ret.symbol_hits)

\* the query ran on the index of the two files and named src/main.py first,
\* without a symbol hit
C21_QueryWithoutSymbolHit ==
    /\ ret.op = "find_relevant_files"
    /\ ret.query = E2EQuery
    /\ ret.loaded
    /\ DOMAIN ret.stored.file_index = {"src/main.py", "src/util.py"}
    /\ ret.files = <<"src/main.py">>
    /\ ret.symbol_hits = <<>>

\* the loops that run for a root and were not told to stop
LiveLoops(root) ==
    {n \in DOMAIN watch.loops :
        /\ watch.loops[n].root = root
        /\ watch.loops[n].pc = "running"
        /\ ~watch.loops[n].stop}

\* C24: after any interleaving of start_watching, stop_watching and loop
\* terminations at most one watch loop runs for a canonical root, and
\* start_watching on a watched root starts no loop and returns the watcher id.
C24_AtMostOneLoopPerRoot ==
    /\ \A p \in WatchPaths : Cardinality(LiveLoops(ResolveParts(p))) <= 1
    /\ ret.op = "start_watching" => ret.val = ResolveParts(ret.project_path)
    /\ (ret.op = "start_watching" /\ ~ret.started)
          => LiveLoops(ResolveParts(ret.project_path)) # {}

\* two loops run for one root and neither was told to stop
C24_TwoLoopsOneRoot == \E p \in WatchPaths : Cardinality(LiveLoops(ResolveParts(p))) = 2

\* the step is a batch whose callback raised
CallbackRaised ==
    /\ ret'.op = "batch"
    /\ ret'.invoked = 1
    /\ ret'.outcome = "raised"
    /\ <<ret, watch>>' # <<ret, watch>>

\* C25: a callback that raises on a batch does not end the watcher: the loop
\* keeps running, the registry is unchanged, and a later relevant batch
\* invokes the callback again.
C25_CallbackFailureKeepsWatcher ==
    /\ [][CallbackRaised =>
            /\ watch'.loops[ret'.loop].pc = "running"
            /\ watch'.active = watch.active]_vars
    /\ [](\A n \in DOMAIN watch.loops :
            (watch.loops[n].pc = "running" /\ watch.loops[n].last = "raised")
               => ENABLED (/\ Batch(n, {HomeApp \o <<"a.py">>}, "ok")
                           /\ ret'.invoked = 1))

\* the callback is invoked for a batch after it raised on an earlier one, the
\* root still being registered
C25_Witness ==
    /\ ret.op = "batch"
    /\ ret.invoked = 1
    /\ ret.before = "raised"
    /\ ret.root \in WatcherIds(watch)

\* some changed path is a file with an allowlisted extension under the root
\* with no denylisted directory between the root and the file
ShouldTrigger(root, changes) ==
    \E p \in changes :
       /\ Suffix(Last(p)) \in SUPPORTED_EXTENSIONS
       /\ \A i \in (Len(root) + 1)..(Len(p) - 1) : p[i] \notin IGNORED_DIRS

\* C26: for every batch the callback is invoked exactly once, with the project
\* root, if some changed path has an allowlisted extension and no denylisted
\* ancestor directory, and not otherwise; a change to a file that the scan of
\* the root returns triggers the update wherever the root is located.
C26_CallbackIffRelevantChange ==
    ret.op = "batch" =>
        /\ ret.invoked = (IF ShouldTrigger(ret.root, ret.changes) THEN 1 ELSE 0)
        /\ ret.invoked = 1 => ResolveParts(ret.arg) = ret.root

\* a batch that changed a.py at the top of a root under /tmp invoked nothing
C26_RootUnderIgnoredName ==
    /\ ret.op = "batch"
    /\ ret.root = TmpApp
    /\ TmpApp \o <<"a.py">> \in ret.changes
    /\ ret.invoked = 0

IndexerOps ==
    {"index_project", "update_index", "watch_project", "unwatch_project",
     "indexer_delete_project"}

\* C22: no public indexer operation ends by raising: index_project,
\* update_index, watch_project, unwatch_project and delete_project return a
\* result with their success fields or an error string, also update_index for
\* an indexed project whose root is gone or is no directory.
C22_IndexerOpsNeverRaise == ret.op \in IndexerOps => ~ret.raised

\* update_index of an indexed project ended with the exception of the scan
C22_UpdateRaisesForMissingRoot ==
    /\ ret.op = "update_index"
    /\ ret.raised
    /\ ~IsDir(disk[RootAB])


\* a scanned file the build cannot use: unreadable, binary or blank
BadFile(file) ==
    /\ file.exists
    /\ SizeBytes(file.content) # 0
    /\ IsBlank(read_file(file))

\* the file row, keyword edges and symbol locations that extraction of the
\* file on disk gives
ExtractedNow(db, dir, f) ==
    /\ f \in FileKeys(db)
    /\ {k.keyword : k \in {e \in db.keyword_files : e.rel_path = f}}
          = Range(extract_keywords(read_file(dir[f])))
    /\ {y.name : y \in {e \in db.symbols : e.rel_path = f}}
          = {s.name : s \in Range(extract_symbols(read_file(dir[f])))}

\* C23: after index_project or update_index has stored an index, a scanned file
\* that cannot be read, is binary or is blank has no file entry, keyword edge
\* or symbol location in it, and every other scanned file that index_project
\* scanned, or that update_index found modified, is stored as extracted
C23_BadFileSkippedOthersSaved ==
    (IF ret.op = "index_project" THEN ret.saved ELSE ret.op = "update_index" /\ ret.ok) =>
        LET db == store[_project_db_path(ret.root)]
            dir == disk[ret.root]
        IN \A f \in FilesOnDisk :
              /\ BadFile(dir[f]) => NoTraceOf(db, f)
              /\ (/\ Indexable(dir[f])
                  /\ (ret.op = "update_index" => f \in Range(ret.updated_files)))
                    => ExtractedNow(db, dir, f)


\* a build that met an unreadable and a binary file and stored the good one
C23_UnreadableAndBinaryMet ==
    /\ ret.op = "update_index"
    /\ ret.ok
    /\ ret.files_updated = 2
    /\ disk[ret.root]["a.py"].content = UnreadableContent
    /\ disk[ret.root]["b.py"].content = BinaryContent
    /\ store[_project_db_path(ret.root)].files = {}


\* the directories from the root down to the parent of p
Ancestors(p) == {SubSeq(p, 1, i) : i \in 0..(Len(p) - 1)}

\* a regular file that is no symlink, with an allowlisted extension, a size
\* from 1 to 1,000,000 bytes, no denylisted or symlinked directory between the
\* root and the file, and a resolved path under the root
Eligible(fs, p) ==
    /\ fs[p].kind = "file"
    /\ Suffix(Last(p)) \in SUPPORTED_EXTENSIONS
    /\ fs[p].size >= 1
    /\ fs[p].size <= 1000000
    /\ \A q \in Ancestors(p) \ {<<>>} : fs[q].kind = "dir" /\ Last(q) \notin IGNORED_DIRS
    /\ _is_safe_path(fs, p)

EligiblePaths(fs) == {RelStr(p) : p \in {q \in DOMAIN fs \ {<<>>} : Eligible(fs, q)}}

\* every directory from the root to the file may be listed
Listable(fs, p) == \A q \in Ancestors(p) : fs[q].kind = "dir" => fs[q].open

ListablePaths(fs) ==
    {RelStr(p) : p \in {q \in DOMAIN fs \ {<<>>} : Eligible(fs, q) /\ Listable(fs, q)}}

ScannedRelPaths == {ret.val[i].relative_path : i \in DOMAIN ret.val}

\* ascending by relative path with no path twice, and the same whatever order
\* the directory listings come in
SortedAndDetermined ==
    /\ \A i \in 1..(Len(ret.val) - 1) :
          StrLess(ret.val[i].relative_path, ret.val[i + 1].relative_path)
    /\ \A ord \in ListingOrders : ScanTree(disk[ScanRoot], ord) = ret.val

RowsOf(db, f) ==
    [files |-> {x \in db.files : x.rel_path = f},
     chunks |-> {x \in db.chunks : x.rel_path = f},
     keyword_files |-> {x \in db.keyword_files : x.rel_path = f},
     symbols |-> {x \in db.symbols : x.rel_path = f}]

\* the rows that extraction of the file now on disk gives: none for a file
\* that is unreadable, binary or blank
ExtractedRows(r, dir, f) ==
    LET meta == SelectSeq(scan_directory(dir), LAMBDA m : m.relative_path = f)
        X == BuildIndex(meta, dir, EmptyIndex)
    IN RowsOf(SaveIndexDb(NoDb, X, r, 0).db, f)

RowsNameKnownFiles(db) ==
    /\ \A c \in db.chunks : c.rel_path \in FileKeys(db)
    /\ \A k \in db.keyword_files : k.rel_path \in FileKeys(db)
    /\ \A y \in db.symbols : y.rel_path \in FileKeys(db)

\* the names of the symbol locations of file f, one for each location
LocationNames(symbol_map, f) ==
    LET flat == FlattenDict(symbol_map, SeqOf(DOMAIN symbol_map))
        mine == SelectSeq(flat, LAMBDA e : e.item.file = f)
    IN [i \in 1..Len(mine) |-> mine[i].key]

SameBag(s, t) ==
    /\ Len(s) = Len(t)
    /\ \A x \in Range(s) \cup Range(t) :
          Len(SelectSeq(s, LAMBDA y : y = x)) = Len(SelectSeq(t, LAMBDA y : y = x))

\* an index as save_index gets it and as load_index returns it
IndexConsistent(fi, km, sm) ==
    /\ \A k \in DOMAIN km : km[k] # <<>> /\ Range(km[k]) \subseteq DOMAIN fi
    /\ \A n \in DOMAIN sm : sm[n] # <<>> /\ \A i \in DOMAIN sm[n] : sm[n][i].file \in DOMAIN fi
    /\ \A f \in DOMAIN fi : SameBag(fi[f].symbols, LocationNames(sm, f))

\* C29: the index that index_project or update_index hands to save_index, the
\* rows stored from it and the index load_index returns from them name only
\* files of the file table, map no keyword and no symbol name to an empty
\* list, and report for each file the names of its symbol locations
C29_StoredIndexConsistent ==
    /\ (ret.op \in {"index_project", "update_index"} /\ "index" \in DOMAIN ret /\ ret.ok)
          => IndexConsistent(ret.index.file_index, ret.index.keyword_map, ret.index.symbol_map)
    /\ \A p \in DOMAIN store :
          (store[p].exists /\ store[p].readable) =>
              /\ RowsNameKnownFiles(store[p])
              /\ LoadFromDb(store[p]).ok =>
                    IndexConsistent(LoadFromDb(store[p]).file_index,
                                    LoadFromDb(store[p]).keyword_map,
                                    LoadFromDb(store[p]).symbol_map)

\* an update that purged a.py, which held the only edges of beta and foo, and
\* stored b.py with its chunks, edges and the symbol foo
C29_Witness ==
    /\ ret.op = "update_index"
    /\ ret.ok
    /\ "a.py" \in ret.prior_files
    /\ "a.py" \notin DOMAIN ret.index.file_index
    /\ "beta" \notin DOMAIN ret.index.keyword_map
    /\ "b.py" \in DOMAIN ret.index.file_index
    /\ "alpha" \in DOMAIN ret.index.keyword_map
    /\ store[_project_db_path(ret.root)].chunks # {}
    /\ store[_project_db_path(ret.root)].keyword_files # {}


\* C30: the chunks chunk_file returns are sorted by start_line, lie inside the
\* file (but for the single zero-length chunk of an empty file), share no
\* line, span at most max_chunk_lines lines when they start at a symbol, and
\* are stored under the indices 0..N-1 in that order
C30_ChunksWellFormed ==
    ret.op = "chunk_file" =>
        LET c == ret.val
            n == Len(ret.lines)
        IN /\ \A i \in DOMAIN c, j \in DOMAIN c : i < j => c[i].start_line <= c[j].start_line
           /\ IF n = 0
              THEN Len(c) = 1 /\ c[1].start_line = 1 /\ c[1].end_line = 0
              ELSE \A i \in DOMAIN c :
                      1 <= c[i].start_line /\ c[i].start_line <= c[i].end_line /\ c[i].end_line <= n
           /\ \A i \in DOMAIN c, j \in DOMAIN c :
                 i # j => (c[i].end_line < c[j].start_line \/ c[j].end_line < c[i].start_line)
           /\ \A i \in DOMAIN c :
                 c[i].symbol # NoneStr => c[i].end_line - c[i].start_line + 1 <= 60
           /\ {r.chunk_index : r \in ret.rows} = 0..(Len(c) - 1)
           /\ \A r \in ret.rows :
                 /\ r.start_line = c[r.chunk_index + 1].start_line
                 /\ r.end_line = c[r.chunk_index + 1].end_line


\* the lines that the chunks of a list cover
CoveredLines(c) == UNION {c[i].start_line .. c[i].end_line : i \in DOMAIN c}

\* C31: the chunks chunk_file returns cover, without a gap, the lines from 1 to
\* min(number of lines, 200) when there is no symbol and the lines from 1 to
\* the end_line of the last symbol's chunk when there are symbols
C31_ChunksCoverWithoutGap ==
    ret.op = "chunk_file" =>
        LET c == ret.val
            n == Len(ret.lines)
        IN IF ret.symbols = <<>>
           THEN CoveredLines(c) = 1..(IF n < 200 THEN n ELSE 200)
           ELSE CoveredLines(c) = 1..(c[Len(c)].end_line)


\* the total score of a file for a query: the idf of every query keyword that
\* maps to it and the boost of every symbol hit defined in it
TotalScore(f, query, idx) ==
    ScoreOf(f, KeywordContribs(ExtractKeywords(<<query>>, QUERY_TOP_N), idx.keyword_map,
                               Cardinality(DOMAIN idx.file_index))
               \o SymbolContribs(SymbolHits(query, idx.symbol_map), idx.symbol_map))

\* C32: top_files holds at most 5 files, each with a total score of at least
\* 0.5, in non-increasing order of total score, no file left out scores more
\* than a file in it, and confidence is "low" whenever top_files is empty
C32_TopFilesRanked ==
    ret.op = "retrieve" =>
        LET top == ret.val.top_files
            score(f) == TotalScore(f, ret.query, ret.idx)
        IN /\ Len(top) <= 5
           /\ \A i \in DOMAIN top : score(top[i]) >= 500
           /\ \A i \in DOMAIN top, j \in DOMAIN top : i # j => top[i] # top[j]
           /\ \A i \in DOMAIN top, j \in DOMAIN top : i < j => score(top[i]) >= score(top[j])
           /\ \A f \in DOMAIN ret.idx.file_index :
                 f \notin Range(top) => \A i \in DOMAIN top : score(f) <= score(top[i])
           /\ \A f \in DOMAIN ret.idx.file_index :
                 (f \notin Range(top) /\ Len(top) < 5) => score(f) < 500
           /\ top = <<>> => ret.val.confidence = "low"

\* six files at the floor or above, of which the five best are returned in an
\* order that is not the order of the index
C32_Witness ==
    /\ ret.op = "retrieve"
    /\ Len(ret.val.top_files) = 5
    /\ \A f \in DOMAIN ret.idx.file_index : TotalScore(f, ret.query, ret.idx) >= 500
    /\ ret.val.top_files[1] = "f6.py"
    /\ "f5.py" \notin Range(ret.val.top_files)


\* the chunks of the top files in rank order and, within a file, chunk order
AllParts(top_files, file_index) ==
    ConcatAll([i \in 1..Len(top_files) |->
        [k \in 1..Len(file_index[top_files[i]].chunks) |->
            [file |-> top_files[i], chunk |-> k]]])

RECURSIVE PartsLen(_, _)
PartsLen(parts, file_index) ==
    IF parts = <<>> THEN 0
    ELSE file_index[Head(parts).file].chunks[Head(parts).chunk].part_len
            + PartsLen(Tail(parts), file_index)

\* C33: the packed parts are the chunks of the top files in rank and chunk
\* order up to the first chunk that would overflow the budget of 24,000
\* characters: they never exceed the budget, and no chunk after the first one
\* that would overflow is packed
C33_PackStopsAtOverflow ==
    ret.op = "pack" =>
        LET all == AllParts(ret.top_files, ret.file_index)
            parts == ret.val.parts
        IN /\ Len(parts) <= Len(all)
           /\ parts = SubSeq(all, 1, Len(parts))
           /\ PartsLen(parts, ret.file_index) <= 24000
           /\ Len(parts) < Len(all) =>
                 PartsLen(SubSeq(all, 1, Len(parts) + 1), ret.file_index) > 24000


----------------------------------------------------------------------------
(* Claims about the follow-up question *)

\* the stored turn of a session with the highest turn index
LatestTurn(rows) == CHOOSE r \in rows : \A o \in rows : o.turn_index <= r.turn_index

HistoryKeywords(row) == ExtractKeywords(<<row.question>>, HISTORY_TOP_N)

\* the question extended by the keywords of the last two stored turns
ExtendedQuestion(question, session_id, table) ==
    LET rows == SessionRows(table, session_id)
    IN IF session_id = "" \/ rows = {}
       THEN question
       ELSE LET last == LatestTurn(rows)
                rest == rows \ {last}
            IN IF rest = {}
               THEN question \o HistoryKeywords(last)
               ELSE question \o HistoryKeywords(LatestTurn(rest)) \o HistoryKeywords(last)

\* C34: answer_question scores retrieval on the question extended by the
\* top-5 keywords of the questions of the last two turns of the session (on
\* the question unchanged without a session id or a prior turn), while the
\* prompt and the stored turn hold the original question.
C34_RetrievalOnExtendedQuestion ==
    [][/\ (qa.pc = "idle" /\ "scored" \in DOMAIN ret')
            => ret'.scored = ExtendedQuestion(ret'.question, ret'.session_id, sessions)
       /\ (qa.pc = "idle" /\ qa'.pc = "awaiting_llm")
            => (ret'.op = "ai" /\ ret'.question = qa'.question)
       /\ (qa.pc = "awaiting_llm" /\ "answer" \in DOMAIN ret' /\ qa.session_id # "")
            => \E r \in sessions' \ sessions :
                  /\ r.id = qa.session_id
                  /\ r.question = qa.question
                  /\ sessions' = sessions \cup {r}]_vars

\* a question asked after three turns: only the last two extend it
C34_Witness ==
    /\ ret.op = "ai"
    /\ qa.pc = "awaiting_llm"
    /\ qa.question = <<"alpha">>
    /\ Cardinality(SessionRows(sessions, "s1")) = 3
    /\ \E r \in sessions : r.turn_index = 0 /\ r.question = <<"alpha", "foo">>
    /\ ret.question = <<"alpha">>
    /\ ret.scored = <<"alpha", "gamma", "gamma">>


----------------------------------------------------------------------------
(* Claims about the embeddings path *)

\* C35: a failure in the embeddings path is not fatal.  When embed_texts or
\* save_embeddings raises during index_project, index_project reports success
\* and the database holds the rows of the index just saved; when
\* load_and_search raises during a query, the retriever returns what keyword
\* and symbol scoring alone give.
C35_EmbeddingsFailureNotFatal ==
    /\ (ret.op = "index_project" /\ "emb" \in DOMAIN ret
            /\ ret.emb \in {"embed_fails", "save_fails"})
          => LET p == _project_db_path(ret.root)
                 dir == disk[ret.root]
             IN /\ ret.ok
                /\ ~ret.raised
                /\ ret.files_indexed = Len(scan_directory(dir))
                /\ store[p].exists
                /\ store[p].meta["project_root"] = ret.root
                /\ FileKeys(store[p]) = {scan_directory(dir)[i].relative_path :
                                            i \in DOMAIN scan_directory(dir)}
                /\ \A f \in FileKeys(store[p]) :
                      RowsOf(store[p], f) = ExtractedRows(ret.root, dir, f)
    /\ (ret.op = "find_relevant_files" /\ ret.loaded /\ ret.semantic /\ "raises" \in DOMAIN ret.sim)
          => LET alone == _retrieve_context(ret.query, ret.stored, FALSE, NoDb, ret.sim)
             IN /\ ret.files = alone.top_files
                /\ ret.symbol_hits = alone.symbol_hits
                /\ ret.confidence = alone.confidence

\* a query over stored embeddings for which load_and_search raises
C35_Witness ==
    /\ ret.op = "find_relevant_files"
    /\ ret.loaded
    /\ ret.semantic
    /\ "raises" \in DOMAIN ret.sim
    /\ Cardinality(ret.embeddings) >= 2
    /\ DOMAIN ret.stored.file_index = {"a.py", "b.py"}


----------------------------------------------------------------------------
(* Claims about deleting a watched project *)

\* C36: after indexer.delete_project returned deleted = true, no watcher is
\* active for the root of the deleted project, whichever handle (root path,
\* slug or project_id) named it.
C36_DeletedProjectUnwatched ==
    (ret.op = "indexer_delete_project" /\ ret.deleted)
        => /\ Resolve(ret.project_root) \notin WatcherIds(watch)
           /\ \A n \in DOMAIN watch.loops :
                 (watch.loops[n].root = Resolve(ret.project_root)
                    /\ watch.loops[n].pc = "running")
                 => watch.loops[n].stop


----------------------------------------------------------------------------
(* Claims about the watcher registry *)

\* C37: in every reachable state a root is listed by list_watchers if and
\* only if a watch loop that has not been told to stop is running for it, and
\* stop_watching leaves no such loop for its root.
C37_RegistryMatchesLoops ==
    /\ \A p \in WatchPaths :
          (ResolveParts(p) \in WatcherIds(watch)) <=> (LiveLoops(ResolveParts(p)) # {})
    /\ ret.op = "stop_watching" => LiveLoops(ResolveParts(ret.project_path)) = {}


----------------------------------------------------------------------------
(* Claims about modifications during a run *)

\* C38: no modification is lost by the incremental updater: a file modified
\* at any moment, also between the read of a run and its indexed_at, is either
\* stored by that run or re-extracted by the next update_index, so after an
\* update_index the stored rows of every file are those of its content on disk.
C38_NoModificationLost ==
    (ret.op = "update_index" /\ ret.ok) =>
        \A f \in FilesOnDisk :
            disk[ret.root][f].exists =>
                RowsOf(store[_project_db_path(ret.root)], f)
                    = ExtractedRows(ret.root, disk[ret.root], f)


----------------------------------------------------------------------------
(* Claims about the embeddings after update_index *)

\* the step is an update_index that succeeds on a project with embedding rows
UpdatesEmbedded ==
    /\ ret'.op = "update_index"
    /\ ret'.ok
    /\ <<ret, store>>' # <<ret, store>>
    /\ store[_project_db_path(ret'.root)].embeddings # {}

\* C39: update_index keeps dense retrieval available: when embedding rows
\* were stored before it, afterwards every chunk of every file that was
\* neither changed nor deleted has its embedding row, and every embedding row
\* is keyed by a (file, chunk index) of the stored index.
C39_UpdateKeepsEmbeddings ==
    [][UpdatesEmbedded =>
        LET p == _project_db_path(ret'.root)
            kept == {f \in FileKeys(store'[p]) :
                        \A i \in DOMAIN ret'.updated_files : ret'.updated_files[i] # f}
        IN /\ \A c \in store'[p].chunks :
                 c.rel_path \in kept
                    => \E e \in store'[p].embeddings :
                          EmbeddingKey(e) = <<c.rel_path, c.chunk_index>>
           /\ \A e \in store'[p].embeddings :
                 \E c \in store'[p].chunks :
                    EmbeddingKey(e) = <<c.rel_path, c.chunk_index>>]_vars


----------------------------------------------------------------------------
(* Claims about concurrent session turns *)

\* C40: when two save_session_turn calls for one session id run on separate
\* connections, in any interleaving of their reads and inserts both succeed,
\* both turns are stored, and their turn indices are distinct and consecutive.
C40_ConcurrentTurnsBothStored ==
    (/\ wr.calls[1].pc = "done"
     /\ wr.calls[2].pc = "done"
     /\ wr.calls[1].session_id = wr.calls[2].session_id)
        => /\ wr.calls[1].ok
           /\ wr.calls[2].ok
           /\ wr.calls[1].row \in sessions
           /\ wr.calls[2].row \in sessions
           /\ wr.calls[1].row.turn_index - wr.calls[2].row.turn_index \in {-1, 1}

====
